---- MODULE Spec2Model ----
(***************************************************************************)
(* A model of the library chatbot's query-understanding pipeline:          *)
(* QueryMatcher (src/src/chatbot/matcher.py), KnowledgeBase                *)
(* (src/src/chatbot/knowledge_base.py) and ChatBot                         *)
(* (src/src/chatbot/core.py).                                              *)
(*                                                                         *)
(* Text is a sequence of characters.  A character is a one-letter string;  *)
(* the letters that are not ASCII are written as a letter and a mark:      *)
(*   "a'" "e'" "i'" "o'" "u'" the acute vowels, "u:" u with diaeresis,     *)
(*   "n~" n with tilde, "E'" "O'" upper-case acute vowels, "?i" the        *)
(*   inverted question mark.                                               *)
(* Numbers that are floats in the program are exact rationals <<n, d>>.    *)
(***************************************************************************)
EXTENDS Integers, Sequences, FiniteSets, TLC

(***************************************************************************)
(* Characters                                                              *)
(***************************************************************************)

\* str.lower() on the characters of the model's alphabet
LowerChar(c) ==
    CASE c = "A" -> "a" [] c = "B" -> "b" [] c = "C" -> "c" [] c = "L" -> "l"
      [] c = "O" -> "o" [] c = "R" -> "r" [] c = "S" -> "s" [] c = "T" -> "t"
      [] c = "U" -> "u"
      [] c = "E'" -> "e'" [] c = "O'" -> "o'"
      [] OTHER -> c

\* the replacements table of normalize_text: accented letter -> base letter
StripAccent(c) ==
    CASE c = "a'" -> "a" [] c = "e'" -> "e" [] c = "i'" -> "i" [] c = "o'" -> "o"
      [] c = "u'" -> "u" [] c = "u:" -> "u" [] c = "n~" -> "n"
      [] OTHER -> c

\* \s of the regular expressions, and what str.strip() and str.split() cut at
IsSpace(c) == c \in {" ", "\t", "\n"}

\* [^\w\s]: neither a word character (letter, digit, underscore) nor a space
IsPunct(c) == c \in {"?", "?i", "!", ".", ",", "-", ";", ":"}

(***************************************************************************)
(* Strings as sequences of characters                                      *)
(***************************************************************************)

\* the one element of a one-element set.  Only({ e : x \in {v} }) is e with x
\* standing for the value of v: v is computed once, however often e uses x
Only(S) == CHOOSE x \in S : TRUE

\* the tuple holding the values of the sequence s
Tuple(s) == Only({ SubSeq(t, 1, Len(t)) : t \in {s} })

\* [Op(c) for c in s]
MapSeq(Op(_), s) == Only({ Tuple([i \in 1..Len(t) |-> Op(t[i])]) : t \in {s} })

\* str.startswith
StartsWith(s, p) ==
    \E t \in {s}, q \in {p} : Len(q) <= Len(t) /\ SubSeq(t, 1, Len(q)) = q

\* str.endswith
EndsWith(s, p) ==
    \E t \in {s}, q \in {p} :
        Len(q) <= Len(t) /\ SubSeq(t, Len(t) - Len(q) + 1, Len(t)) = q

\* p in s: p occurs as a substring of s
Contains(s, p) ==
    \E t \in {s}, q \in {p} :
        \E i \in 0..(Len(t) - Len(q)) : \A k \in 1..Len(q) : t[i + k] = q[k]

\* str.replace(old, new) from position from on: the leftmost occurrence of old
\* is replaced and the search goes on behind it
RECURSIVE ReplaceFrom(_, _, _, _)
ReplaceFrom(s, old, new, from) ==
    Only({ IF found = {} THEN SubSeq(s, from, Len(s))
           ELSE Only({ SubSeq(s, from, first - 1) \o new
                          \o ReplaceFrom(s, old, new, first + Len(old)) :
                       first \in { CHOOSE i \in found : \A j \in found : i <= j } }) :
           found \in { {i \in from..(Len(s) - Len(old) + 1) :
                          \A k \in 1..Len(old) : s[i + k - 1] = old[k]} } })

\* str.replace(old, new): leftmost non-overlapping occurrences, one pass
Replace(s, old, new) ==
    Only({ ReplaceFrom(t, o, n, 1) : t \in {s}, o \in {old}, n \in {new} })

\* a character that is kept, "" standing for a dropped one
Kept(c) == c # ""

\* re.sub(r'\s+', ' ', text).strip(): runs of spaces become one, none at the ends
CollapseStrip(s) ==
    Only({ SelectSeq(Tuple([i \in 1..Len(t) |->
                              IF ~IsSpace(t[i]) THEN t[i]
                              ELSE IF /\ i > 1
                                      /\ ~IsSpace(t[i - 1])
                                      /\ \E j \in (i + 1)..Len(t) : ~IsSpace(t[j])
                                   THEN " " ELSE ""]),
                     Kept) :
           t \in {s} })

\* str.split(): the maximal runs of non-space characters, in order
Split(s) ==
    Only({ LET n == Len(t)
               Starts(i) == ~IsSpace(t[i]) /\ (i = 1 \/ IsSpace(t[i - 1]))
               End(i) == CHOOSE j \in i..n :
                            /\ \A k \in i..j : ~IsSpace(t[k])
                            /\ j = n \/ IsSpace(t[j + 1])
           IN Only({ Tuple([k \in 1..Len(starts) |-> SubSeq(t, starts[k], End(starts[k]))]) :
                     starts \in { SelectSeq(Tuple([i \in 1..n |-> i]), Starts) } }) :
           t \in {s} })

\* ' '.join(words)
RECURSIVE Join(_)
Join(ws) ==
    Only({ IF v = <<>> THEN <<>>
           ELSE IF Len(v) = 1 THEN v[1]
           ELSE v[1] \o <<" ">> \o Join(Tail(v)) :
           v \in {ws} })

\* set(words)
Range(s) == Only({ {t[i] : i \in 1..Len(t)} : t \in {s} })

\* not text.strip(): the text is empty or all white space
IsBlank(s) == \E t \in {s} : \A i \in 1..Len(t) : IsSpace(t[i])

(***************************************************************************)
(* Exact rationals <<n, d>>, d > 0, in lowest terms, for the program's     *)
(* floats                                                                  *)
(***************************************************************************)

Abs(n) == Only({ IF m < 0 THEN -m ELSE m : m \in {n} })

RECURSIVE GCD(_, _)
GCD(a, b) == Only({ IF y = 0 THEN x ELSE GCD(y, x % y) : x \in {a}, y \in {b} })

Rat(n, d) ==
    Only({ Only({ IF g = 0 THEN <<0, 1>> ELSE <<x \div g, y \div g>> :
                  g \in { GCD(Abs(x), y) } }) :
           x \in {n}, y \in {d} })

RAdd(a, b) == Only({ Rat(x[1] * y[2] + y[1] * x[2], x[2] * y[2]) : x \in {a}, y \in {b} })
RSub(a, b) == Only({ Rat(x[1] * y[2] - y[1] * x[2], x[2] * y[2]) : x \in {a}, y \in {b} })
RMul(a, b) == Only({ Rat(x[1] * y[1], x[2] * y[2]) : x \in {a}, y \in {b} })
RLess(a, b) == \E x \in {a}, y \in {b} : x[1] * y[2] < y[1] * x[2]
RLeq(a, b) == \E x \in {a}, y \in {b} : x[1] * y[2] <= y[1] * x[2]
RMax(a, b) == Only({ IF RLess(x, y) THEN y ELSE x : x \in {a}, y \in {b} })
RMin(a, b) == Only({ IF RLess(y, x) THEN y ELSE x : x \in {a}, y \in {b} })
Zero == <<0, 1>>
One == <<1, 1>>

(***************************************************************************)
(* difflib.SequenceMatcher(None, a, b).ratio(): 2 * M / T, M the number of *)
(* characters in the matching blocks found by taking the longest common    *)
(* block (earliest in a, then earliest in b) and recursing on both sides.  *)
(* No junk: isjunk is None and the automatic junk heuristic applies only   *)
(* to sequences of 200 or more elements.                                   *)
(***************************************************************************)

\* the length of the common run of a from i and b from j
RunLen(a, b, i, j) ==
    LET limit == IF Len(a) - i < Len(b) - j THEN Len(a) - i + 1 ELSE Len(b) - j + 1
    IN CHOOSE k \in 0..limit :
          /\ \A t \in 0..(k - 1) : a[i + t] = b[j + t]
          /\ k = limit \/ a[i + k] # b[j + k]

Min2(x, y) == Only({ IF u < v THEN u ELSE v : u \in {x}, v \in {y} })

\* SequenceMatcher.find_longest_match(alo, ahi, blo, bhi) on positions
\* alo..ahi of a and blo..bhi of b (inclusive): <<i, j, k>>, the longest common
\* block, the earliest in a and then in b among the longest.  run maps each
\* pair of positions holding equal characters to the run length from it.
find_longest_match(run, alo, ahi, blo, bhi) ==
    Only({ IF cells = {} THEN <<alo, blo, 0>>
           ELSE Only({ <<best[1], best[2], best[3]>> :
                       best \in { CHOOSE c \in cells :
                                    \A d \in cells :
                                       \/ d[3] < c[3]
                                       \/ /\ d[3] = c[3]
                                          /\ c[1] < d[1] \/ (c[1] = d[1] /\ c[2] <= d[2]) } }) :
           cells \in { { <<c[1], c[2], Min2(run[c], Min2(ahi - c[1] + 1, bhi - c[2] + 1))>> :
                           c \in {c \in DOMAIN run : /\ c[1] >= alo /\ c[1] <= ahi
                                                    /\ c[2] >= blo /\ c[2] <= bhi} } } })

\* the total size of SequenceMatcher.get_matching_blocks()
RECURSIVE MatchingChars(_, _, _, _, _)
MatchingChars(run, alo, ahi, blo, bhi) ==
    Only({ IF a1 > a2 \/ b1 > b2 THEN 0
           ELSE Only({ IF m[3] = 0 THEN 0
                       ELSE m[3] + MatchingChars(run, a1, m[1] - 1, b1, m[2] - 1)
                                 + MatchingChars(run, m[1] + m[3], a2, m[2] + m[3], b2) :
                       m \in { find_longest_match(run, a1, a2, b1, b2) } }) :
           a1 \in {alo}, a2 \in {ahi}, b1 \in {blo}, b2 \in {bhi} })

\* SequenceMatcher(None, a, b).ratio()
SequenceMatcherRatio(a, b) ==
    Only({ IF Len(x) + Len(y) = 0 THEN One
           ELSE Only({ Rat(2 * MatchingChars(run, 1, Len(x), 1, Len(y)), Len(x) + Len(y)) :
                       run \in { [c \in {c \in (1..Len(x)) \X (1..Len(y)) : x[c[1]] = y[c[2]]}
                                    |-> RunLen(x, y, c[1], c[2])] } }) :
           x \in {a}, y \in {b} })

(***************************************************************************)
(* Words of the program's tables                                           *)
(***************************************************************************)

w_conseguir == <<"c","o","n","s","e","g","u","i","r">>
w_obtener == <<"o","b","t","e","n","e","r">>
w_tomar == <<"t","o","m","a","r">>
w_reservar == <<"r","e","s","e","r","v","a","r">>
w_prestar == <<"p","r","e","s","t","a","r">>
w_usar == <<"u","s","a","r">>
w_devolver == <<"d","e","v","o","l","v","e","r">>
w_cubiculo == <<"c","u","b","i","c","u","l","o">>
w_libro == <<"l","i","b","r","o">>
w_computadora == <<"c","o","m","p","u","t","a","d","o","r","a">>
w_texto == <<"t","e","x","t","o">>
w_sala == <<"s","a","l","a">>
w_cabina == <<"c","a","b","i","n","a">>
w_ordenador == <<"o","r","d","e","n","a","d","o","r">>
w_equipo == <<"e","q","u","i","p","o">>
w_obra == <<"o","b","r","a">>

(***************************************************************************)
(* QueryMatcher (src/src/chatbot/matcher.py)                               *)
(***************************************************************************)

\* QueryMatcher.__init__: self.stop_words
MatcherStopWords ==
  {
    <<"c","o'","m","o">>, <<"c","u","a'","l">>, <<"d","o'","n","d","e">>, <<"q","u","e'">>,
    <<"c","u","a'","n","t","o">>, <<"c","u","a'","n","t","a">>,
    <<"c","u","a'","n","t","o","s">>, <<"c","u","a'","n","t","a","s">>, <<"p","a","r","a">>,
    <<"p","o","r">>, <<"c","o","n">>, <<"s","i","n">>, <<"s","o","b","r","e">>,
    <<"b","a","j","o">>, <<"e","n","t","r","e">>, <<"h","a","c","i","a">>,
    <<"d","e","s","d","e">>, <<"s","e">>, <<"u","n">>, <<"u","n","a">>, <<"u","n","o","s">>,
    <<"u","n","a","s">>, <<"e","l">>, <<"l","a">>, <<"l","o","s">>, <<"l","a","s">>,
    <<"l","o">>, <<"d","e">>, <<"d","e","l">>, <<"a","l">>, <<"y">>, <<"o">>,
    <<"p","e","r","o">>, <<"a">>, <<"e","n">>, <<"q","u","e">>, <<"e","s">>, <<"s","o","n">>,
    <<"e","s","t","e">>, <<"e","s","t","a">>, <<"e","s","t","o","s">>, <<"e","s","t","a","s">>,
    <<"e","s","e">>, <<"e","s","a">>, <<"e","s","o","s">>, <<"e","s","a","s">>, <<"m","e">>,
    <<"t","e">>, <<"n","o","s">>, <<"o","s">>, <<"l","e">>, <<"l","e","s">>, <<"m","i">>,
    <<"t","u">>, <<"s","u">>, <<"n","u","e","s","t","r","o">>, <<"v","u","e","s","t","r","o">>,
    <<"s","u","s">>, <<"m","u","y">>, <<"m","a","s">>, <<"m","a'","s">>,
    <<"m","e","n","o","s">>, <<"t","a","n">>, <<"t","a","n","t","o">>, <<"c","o","m","o">>,
    <<"c","u","a","n","d","o">>, <<"d","o","n","d","e">>, <<"m","i","e","n","t","r","a","s">>,
    <<"a","u","n","q","u","e">>, <<"p","o","r","q","u","e">>, <<"s","i">>, <<"s","i'">>,
    <<"n","o">>, <<"t","a","m","b","i","e'","n">>, <<"a","d","e","m","a'","s">>,
    <<"e","n","t","o","n","c","e","s">>, <<"l","u","e","g","o">>, <<"a","h","o","r","a">>,
    <<"a","n","t","e","s">>, <<"d","e","s","p","u","e'","s">>, <<"s","i","e","m","p","r","e">>,
    <<"n","u","n","c","a">>, <<"a"," ","v","e","c","e","s">>, <<"q","u","i","z","a'","s">>,
    <<"c","o","n","s","e","g","u","i","r">>, <<"o","b","t","e","n","e","r">>,
    <<"t","e","n","e","r">>, <<"h","a","c","e","r">>, <<"u","s","a","r">>,
    <<"u","t","i","l","i","z","a","r">>, <<"n","e","c","e","s","i","t","a","r">>,
    <<"q","u","e","r","e","r">>, <<"p","o","d","e","r">>, <<"d","e","b","e","r">>,
    <<"s","a","b","e","r">>, <<"c","o","n","o","c","e","r">>
  }

\* QueryMatcher.__init__: self.exclusive_words
exclusive_words ==
    [w \in {w_libro, w_computadora, w_cubiculo} |->
        CASE w = w_libro -> <<w_computadora, w_cubiculo, w_equipo, w_sala>>
          [] w = w_computadora -> <<w_libro, w_cubiculo, w_texto, w_obra>>
          [] w = w_cubiculo -> <<w_libro, w_computadora, w_texto, w_equipo>>]

\* normalize_text: problematic_synonyms, in the dict's order
problematic_synonyms ==
    << <<w_conseguir, w_reservar>>, <<w_obtener, w_reservar>>, <<w_tomar, w_prestar>> >>

\* for problematic, replacement in problematic_synonyms.items(): text.replace
RECURSIVE ReplaceAll(_, _)
ReplaceAll(text, table) ==
    IF table = <<>> THEN text
    ELSE ReplaceAll(Replace(text, table[1][1], table[1][2]), Tail(table))

\* re.sub(r'[^\w\s]', ' ', text) on one character
PunctToSpace(c) == IF IsPunct(c) THEN " " ELSE c

\* QueryMatcher.normalize_text
normalize_text(text) ==
    Only({ IF t = <<>> THEN <<>>
           ELSE CollapseStrip(
                  MapSeq(PunctToSpace,
                    MapSeq(StripAccent,
                      ReplaceAll(MapSeq(LowerChar, t), problematic_synonyms)))) :
           t \in {text} })

\* the critical words: category_keywords of expand_with_synonyms and the set
\* {"cubiculo", "libro", "computadora"} of calculate_similarity
CriticalWords == {w_cubiculo, w_libro, w_computadora}

\* for q in expanded_queries: if q not in unique_queries: unique_queries.append(q)
RECURSIVE Unique(_, _)
Unique(qs, seen) ==
    Only({ IF q = <<>> THEN u
           ELSE Unique(Tail(q), IF \E i \in 1..Len(u) : u[i] = Head(q)
                                THEN u ELSE Append(u, Head(q))) :
           q \in {qs}, u \in {seen} })

\* [x for x in s if Keep(x)]
Filter(Keep(_), s) == SelectSeq(s, Keep)

\* the loop over enumerate(words) without the test of category_keywords: the
\* category-defining keywords are replaced like any other word
RECURSIVE SynonymVariantsOfEveryWord(_, _, _)
SynonymVariantsOfEveryWord(syn, words, i) ==
    IF i > Len(words) THEN <<>>
    ELSE Only({ ( IF /\ word \in DOMAIN syn
                     /\ Len(word) > 2
                     /\ Len(syn[word]) > 0
                  THEN << Join([words EXCEPT ![k] = syn[word][1]]) >>
                  ELSE <<>> ) \o SynonymVariantsOfEveryWord(syn, words, k + 1) :
                k \in {i}, word \in {words[i]} })

\* the variants of the loop over enumerate(words): word i replaced by the first
\* synonym of its entry (self.synonyms[word][:1])
RECURSIVE SynonymVariants(_, _, _)
SynonymVariants(syn, words, i) ==
    IF i > Len(words) THEN <<>>
    ELSE Only({ ( IF /\ word \notin CriticalWords
                     /\ word \in DOMAIN syn
                     /\ Len(word) > 2
                     /\ Len(syn[word]) > 0
                  THEN << Join([words EXCEPT ![k] = syn[word][1]]) >>
                  ELSE <<>> ) \o SynonymVariants(syn, words, k + 1) :
                k \in {i}, word \in {words[i]} })

\* QueryMatcher.expand_with_synonyms
expand_with_synonyms(syn, stop, query) ==
    Only({ IF normalized = <<>> THEN << <<>> >>
           ELSE Only({ LET Important(word) == word \notin stop \/ word \in CriticalWords
                       IN Only({ Unique(<<normalized>> \o SynonymVariants(table, words, 1)
                                    \o ( IF important # <<>> /\ important # normalized
                                         THEN << important >> ELSE <<>> ),
                                    <<>>) :
                                 important \in { Join(Filter(Important, words)) } }) :
                       words \in { Split(normalized) }, table \in {syn} }) :
           normalized \in { normalize_text(query) } })

ActionVerbs == {w_reservar, w_prestar, w_usar, w_devolver}

\* calculate_similarity, lines 167-168 and 186-187: common_actions, the action
\* verbs among the words of both the query and the phrase that are no stop words
CommonActions(stop, query_words, phrase_words) ==
    ((query_words \ stop) \cap (phrase_words \ stop)) \cap ActionVerbs

\* a guard that skips a pair only when the two sets of critical words have no
\* word in common
DisjointCriticalWords(critical_words_query, critical_words_phrase) ==
    /\ critical_words_query # {}
    /\ critical_words_phrase # {}
    /\ critical_words_query \cap critical_words_phrase = {}

\* calculate_similarity, lines 155-158: the pair is skipped when both have
\* critical words and not the same ones
CrossCategoryPair(critical_words_query, critical_words_phrase) ==
    /\ critical_words_query # {}
    /\ critical_words_phrase # {}
    /\ critical_words_query # critical_words_phrase

\* a penalty for every pair whose phrase has none of the critical words of the
\* query, also when the query has no critical word
KeywordPenaltyWithoutKeywords(critical_words_query, phrase_words) ==
    critical_words_query \cap phrase_words = {}

\* calculate_similarity, line 190: the condition of bonus -= 0.3
KeywordPenalty(critical_words_query, phrase_words) ==
    /\ critical_words_query # {}
    /\ critical_words_query \cap phrase_words = {}

\* the body of the two loops of calculate_similarity for one (query, phrase)
\* pair: <<scored, combined>>, scored FALSE when the pair is skipped
PairScore(stop, query, phrase) ==
    IF query = <<>> \/ phrase = <<>> THEN <<FALSE, Zero>>
    ELSE Only({ Only({
           LET critical_words_query == query_words \cap CriticalWords
               critical_words_phrase == phrase_words \cap CriticalWords
               query_content == query_words \ stop
               phrase_content == phrase_words \ stop
               keyword_similarity ==
                   IF query_content # {} /\ phrase_content # {}
                   THEN Rat(Cardinality(query_content \cap phrase_content),
                            Cardinality(query_content \cup phrase_content))
                   ELSE Zero
               textual_similarity == SequenceMatcherRatio(query_normalized, phrase_normalized)
               bonus0 == Rat(5 * Cardinality(CommonActions(stop, query_words, phrase_words)), 100)
               bonus == IF KeywordPenalty(critical_words_query, phrase_words)
                        THEN RSub(bonus0, Rat(3, 10)) ELSE bonus0
               combined == RAdd(RAdd(RMul(keyword_similarity, Rat(7, 10)),
                                     RMul(textual_similarity, Rat(2, 10))), bonus)
           IN IF CrossCategoryPair(critical_words_query, critical_words_phrase)
              THEN <<FALSE, Zero>>
              ELSE <<TRUE, RMax(Zero, combined)>> :
           query_words \in { Range(Split(query_normalized)) },
           phrase_words \in { Range(Split(phrase_normalized)) } }) :
         query_normalized \in { normalize_text(query) },
         phrase_normalized \in { normalize_text(phrase) } })

\* the maximum of a non-empty finite set of rationals, 0 for the empty set
RMaxOf(S) ==
    Only({ IF T = {} THEN Zero ELSE CHOOSE x \in T : \A y \in T : RLeq(y, x) : T \in {S} })

\* calculate_similarity returning the greatest combined score as it is, without
\* min(max_similarity, 1.0)
calculate_similarity_unclamped(stop, queries, target_phrases) ==
    Only({ IF qs = <<>> \/ ps = <<>> THEN Zero
           ELSE Only({ RMaxOf({ s[2] : s \in { t \in scores : t[1] } }) :
                       scores \in { { PairScore(stop, qs[i], ps[j]) :
                                        i \in 1..Len(qs), j \in 1..Len(ps) } } }) :
           qs \in {queries}, ps \in {target_phrases} })

\* QueryMatcher.calculate_similarity
calculate_similarity(stop, queries, target_phrases) ==
    Only({ IF qs = <<>> \/ ps = <<>> THEN Zero
           ELSE Only({ RMin(RMaxOf({ s[2] : s \in { t \in scores : t[1] } }), One) :
                       scores \in { { PairScore(stop, qs[i], ps[j]) :
                                        i \in 1..Len(qs), j \in 1..Len(ps) } } }) :
           qs \in {queries}, ps \in {target_phrases} })


(***************************************************************************)
(* ChatBot (src/src/chatbot/core.py): configuration                        *)
(***************************************************************************)

\* the four categories, in the iteration order of the category_keywords dict
CategoryOrder == <<"books", "computers", "cubicles", "general">>
Categories == Range(CategoryOrder)

\* ChatBot.__init__: self.category_keywords["books"]
Keywords_books ==
    [ palabras |-> <<
        <<"l","i","b","r","o">>, <<"t","e","x","t","o">>, <<"v","o","l","u","m","e","n">>,
        <<"o","b","r","a">>, <<"l","e","c","t","u","r","a">>, <<"n","o","v","e","l","a">>,
        <<"a","u","t","o","r">>, <<"t","i'","t","u","l","o">>,
        <<"e","d","i","t","o","r","i","a","l">>, <<"p","r","e'","s","t","a","m","o">>,
        <<"d","e","v","o","l","u","c","i","o'","n">>,
        <<"b","i","b","l","i","o","g","r","a","f","i'","a">>,
        <<"r","e","f","e","r","e","n","c","i","a">>, <<"c","o","l","e","c","c","i","o'","n">>,
        <<"p","a'","g","i","n","a">> >>,
      peso |-> One,
      exclusivas |-> <<
        <<"l","i","b","r","o">>, <<"t","e","x","t","o">>, <<"v","o","l","u","m","e","n">>,
        <<"n","o","v","e","l","a">>, <<"a","u","t","o","r">> >> ]

\* ChatBot.__init__: self.category_keywords["computers"]
Keywords_computers ==
    [ palabras |-> <<
        <<"c","o","m","p","u","t","a","d","o","r","a">>,
        <<"o","r","d","e","n","a","d","o","r">>, <<"p","c">>, <<"e","q","u","i","p","o">>,
        <<"s","o","f","t","w","a","r","e">>, <<"h","a","r","d","w","a","r","e">>,
        <<"i","n","t","e","r","n","e","t">>, <<"i","m","p","r","e","s","o","r","a">>,
        <<"d","i","g","i","t","a","l">>, <<"t","e","c","l","a","d","o">>,
        <<"m","o","n","i","t","o","r">>, <<"p","r","o","g","r","a","m","a">>,
        <<"a","p","l","i","c","a","c","i","o'","n">>, <<"r","e","d">>, <<"w","i","f","i">>,
        <<"o","n","l","i","n","e">> >>,
      peso |-> One,
      exclusivas |-> <<
        <<"c","o","m","p","u","t","a","d","o","r","a">>,
        <<"o","r","d","e","n","a","d","o","r">>, <<"p","c">>,
        <<"s","o","f","t","w","a","r","e">>, <<"h","a","r","d","w","a","r","e">> >> ]

\* ChatBot.__init__: self.category_keywords["cubicles"]
Keywords_cubicles ==
    [ palabras |-> <<
        <<"c","u","b","i","c","u","l","o">>, <<"s","a","l","a">>,
        <<"e","s","p","a","c","i","o">>, <<"c","a","b","i","n","a">>,
        <<"e","s","t","u","d","i","o">>, <<"s","i","l","e","n","c","i","o","s","o">>,
        <<"g","r","u","p","o">>, <<"r","e","s","e","r","v","a","r">>, <<"a'","r","e","a">>,
        <<"i","n","d","i","v","i","d","u","a","l">>, <<"p","r","i","v","a","d","o">>,
        <<"s","i","l","e","n","c","i","o","s","a">>, <<"t","r","a","b","a","j","o">>,
        <<"c","o","n","c","e","n","t","r","a","c","i","o'","n">> >>,
      peso |-> One,
      exclusivas |-> <<
        <<"c","u","b","i","c","u","l","o">>, <<"c","a","b","i","n","a">>,
        <<"s","i","l","e","n","c","i","o","s","o">>, <<"p","r","i","v","a","d","o">> >> ]

\* ChatBot.__init__: self.category_keywords["general"]
Keywords_general ==
    [ palabras |-> <<
        <<"h","o","r","a","r","i","o">>, <<"h","o","r","a">>, <<"a","b","r","i","r">>,
        <<"c","e","r","r","a","r">>, <<"b","a","n~","o">>, <<"w","c">>,
        <<"s","e","r","v","i","c","i","o">>, <<"u","b","i","c","a","c","i","o'","n">>,
        <<"c","a","r","n","e'">>, <<"m","e","m","b","r","e","s","i'","a">>,
        <<"i","m","p","r","e","s","i","o'","n">>, <<"w","i","f","i">>,
        <<"i","n","f","o","r","m","a","c","i","o'","n">>, <<"a","y","u","d","a">>,
        <<"c","o","n","t","a","c","t","o">>, <<"d","i","r","e","c","c","i","o'","n">>,
        <<"t","e","l","e'","f","o","n","o">>, <<"e","m","a","i","l">>,
        <<"n","o","r","m","a","s">>, <<"r","e","g","l","a","m","e","n","t","o">>,
        <<"a","c","c","e","s","o">> >>,
      peso |-> Rat(7, 10),
      exclusivas |-> <<
        <<"b","a","n~","o">>, <<"w","c">>, <<"h","o","r","a","r","i","o">>,
        <<"a","b","r","i","r">>, <<"c","e","r","r","a","r">> >> ]

\* ChatBot.__init__: self.category_keywords
CategoryKeywordsInit ==
    [c \in Categories |->
        CASE c = "books" -> Keywords_books
          [] c = "computers" -> Keywords_computers
          [] c = "cubicles" -> Keywords_cubicles
          [] c = "general" -> Keywords_general]

\* process_question: category_thresholds
category_thresholds ==
    [c \in Categories |-> IF c = "general" THEN Rat(3, 10) ELSE Rat(4, 10)]

\* process_question: the answer to an empty or blank question
ClarificationAnswer == "Haz una pregunta sobre los servicios de la biblioteca."

\* get_fallback_response: the three answers chosen from the words of the question
FallbackBookLoan ==
    "Para prestamos de libros, presenta tu carne en recepcion. Se permiten hasta 3 libros por 15 dias."
FallbackCubicleReserve ==
    "Para reservar cubiculos, acercate a la recepcion con tu carne. Se permite 1 reserva por dia de maximo 3 horas."
FallbackComputerUse ==
    "Las computadoras estan disponibles por orden de llegada. Maximo 2 horas de uso. Presenta tu carne."

\* get_fallback_response: fallback_responses, the generic answer of each category
fallback_responses ==
    [c \in Categories |->
        CASE c = "books" ->
               "Informacion sobre libros disponible en recepcion. Horario de atencion: 8 AM a 6 PM."
          [] c = "computers" ->
               "Consulta las reglas de uso de computadoras en el area de tecnologia."
          [] c = "cubicles" ->
               "Para reservar cubiculos, visita la recepcion con identificacion."
          [] c = "general" ->
               "No he entendido la pregunta, podrias reformularla?."]

\* every answer get_fallback_response can give
FallbackStrings ==
    {FallbackBookLoan, FallbackCubicleReserve, FallbackComputerUse}
        \cup {fallback_responses[c] : c \in Categories}

\* get_fallback_response looking for the words in the normalized question
get_fallback_response_normalized(category, question) ==
    Only({ IF Contains(question_lower, w_libro) \/ Contains(question_lower, w_texto)
             THEN FallbackBookLoan
           ELSE IF \/ Contains(question_lower, w_cubiculo)
                   \/ Contains(question_lower, w_sala)
                   \/ Contains(question_lower, w_cabina)
             THEN FallbackCubicleReserve
           ELSE IF Contains(question_lower, w_computadora) \/ Contains(question_lower, w_ordenador)
             THEN FallbackComputerUse
           ELSE IF category \in Categories THEN fallback_responses[category]
           ELSE fallback_responses["general"] :
           question_lower \in { normalize_text(question) } })

\* ChatBot.get_fallback_response
get_fallback_response(category, question) ==
    Only({ IF Contains(question_lower, w_libro) \/ Contains(question_lower, w_texto)
             THEN FallbackBookLoan
           ELSE IF \/ Contains(question_lower, w_cubiculo)
                   \/ Contains(question_lower, w_sala)
                   \/ Contains(question_lower, w_cabina)
             THEN FallbackCubicleReserve
           ELSE IF Contains(question_lower, w_computadora) \/ Contains(question_lower, w_ordenador)
             THEN FallbackComputerUse
           ELSE IF category \in Categories THEN fallback_responses[category]
           ELSE fallback_responses["general"] :
           question_lower \in { MapSeq(LowerChar, question) } })


(***************************************************************************)
(* The spaCy pipeline es_core_news_sm, an external package: a fixed,       *)
(* deterministic tokenizer, stop-word list and lemma table over the words  *)
(* of the model.                                                           *)
(***************************************************************************)

\* token.is_stop
SpacyStopWords ==
  {
    <<"d","e">>, <<"l","a">>, <<"q","u","e">>, <<"e","l">>, <<"e","n">>, <<"y">>, <<"a">>,
    <<"l","o","s">>, <<"d","e","l">>, <<"s","e">>, <<"l","a","s">>, <<"p","o","r">>,
    <<"u","n">>, <<"p","a","r","a">>, <<"c","o","n">>, <<"n","o">>, <<"u","n","a">>,
    <<"s","u">>, <<"a","l">>, <<"l","o">>, <<"c","o","m","o">>, <<"c","o'","m","o">>,
    <<"m","a'","s">>, <<"p","e","r","o">>, <<"s","u","s">>, <<"l","e">>, <<"o">>,
    <<"e","s","t","e">>, <<"s","i'">>, <<"p","o","r","q","u","e">>, <<"e","s","t","a">>,
    <<"e","n","t","r","e">>, <<"c","u","a","n","d","o">>, <<"m","u","y">>, <<"s","i","n">>,
    <<"s","o","b","r","e">>, <<"t","a","m","b","i","e'","n">>, <<"m","e">>,
    <<"d","o","n","d","e">>, <<"d","o'","n","d","e">>, <<"d","e","s","d","e">>,
    <<"n","o","s">>, <<"l","e","s">>, <<"e","s","e">>, <<"a","n","t","e","s">>,
    <<"q","u","e'">>, <<"u","n","o","s">>, <<"t","a","n","t","o">>, <<"e","s","a">>,
    <<"e","s","t","o","s">>, <<"c","u","a","l">>, <<"c","u","a'","l">>,
    <<"e","s","t","a","s">>, <<"u","s","a","r">>, <<"e","s">>, <<"s","o","n">>, <<"m","i">>,
    <<"t","u">>, <<"t","e">>
  }

\* token.lemma_ for the inflected words of the model; other words are their own lemma
SpacyLemmaTable ==
  <<
    <<<<"r","e","s","e","r","v","o">>, <<"r","e","s","e","r","v","a","r">>>>,
    <<<<"r","e","s","e","r","v","a">>, <<"r","e","s","e","r","v","a","r">>>>,
    <<<<"l","i","b","r","o","s">>, <<"l","i","b","r","o">>>>,
    <<<<"c","o","m","p","u","t","a","d","o","r","a","s">>, <<"c","o","m","p","u","t","a","d","o","r","a">>>>,
    <<<<"c","u","b","i","c","u","l","o","s">>, <<"c","u","b","i","c","u","l","o">>>>,
    <<<<"c","u","b","i'","c","u","l","o","s">>, <<"c","u","b","i'","c","u","l","o">>>>,
    <<<<"s","a","l","a","s">>, <<"s","a","l","a">>>>,
    <<<<"h","o","r","a","r","i","o","s">>, <<"h","o","r","a","r","i","o">>>>,
    <<<<"a","b","r","e">>, <<"a","b","r","i","r">>>>,
    <<<<"c","i","e","r","r","a">>, <<"c","e","r","r","a","r">>>>
  >>

SpacyLemma(token) ==
    Only({ Only({ IF entries = {} THEN t
                  ELSE SpacyLemmaTable[CHOOSE i \in entries : TRUE][2] :
                  entries \in { {i \in 1..Len(SpacyLemmaTable) : SpacyLemmaTable[i][1] = t} } }) :
           t \in {token} })

\* doc = self.nlp(text): the tokens that are neither punctuation nor space
SpacyTokens(text) == Split(MapSeq(PunctToSpace, text))

\* a lemma of more than two characters
LongLemma(lemma) == Len(lemma) > 2

\* not token.is_stop
NotSpacyStop(token) == token \notin SpacyStopWords

\* token.lemma_.lower()
LowerLemma(token) == MapSeq(LowerChar, SpacyLemma(token))

\* ChatBot.extract_lemmas_spacy
extract_lemmas_spacy(spacy_on, text) ==
    IF ~spacy_on THEN <<>>
    ELSE Filter(LongLemma, MapSeq(LowerLemma, Filter(NotSpacyStop, SpacyTokens(text))))

(***************************************************************************)
(* ChatBot.categorize_question                                             *)
(***************************************************************************)

\* [self.matcher.normalize_text(k) for k in keywords]
NormalizedWords(words) == MapSeq(normalize_text, words)

\* the exclusive-keyword loop for one category: some exclusive word, normalized,
\* is a substring of the normalized question
HasExclusive(ck, category, question_normalized) ==
    \E q \in {question_normalized}, exclusivas \in {ck[category].exclusivas} :
        \E i \in 1..Len(exclusivas) : Contains(q, normalize_text(exclusivas[i]))

\* the categories, by their place in the dict's order, that have an exclusive
\* word in the question
ExclusiveMatches(ck, question_normalized) ==
    Only({ {i \in 1..Len(CategoryOrder) : HasExclusive(ck, CategoryOrder[i], q)} :
           q \in {question_normalized} })

\* the traditional method: how the normalized keyword occurs in the normalized
\* question, which decides what it adds to its category's score
KeywordMatch(keyword_norm, question_normalized) ==
    Only({ IF ~Contains(q, k) THEN "none"
           ELSE IF StartsWith(q, k \o <<" ">>) THEN "start"
           ELSE IF Contains(q, <<" ">> \o k \o <<" ">>) THEN "inside"
           ELSE IF EndsWith(q, <<" ">> \o k) THEN "end"
           ELSE "substring" :
           k \in {keyword_norm}, q \in {question_normalized} })

\* the sum of the rationals Term(lo), ..., Term(hi), added by halves
RECURSIVE RSumOver(_, _, _)
RSumOver(Term(_), lo, hi) ==
    IF lo > hi THEN Zero
    ELSE IF lo = hi THEN Term(lo)
    ELSE LET mid == (lo + hi) \div 2
         IN RAdd(RSumOver(Term, lo, mid), RSumOver(Term, mid + 1, hi))

\* the sum of the rationals Term(1), ..., Term(n)
RSumTo(Term(_), n) == RSumOver(Term, 1, n)

\* category_scores[category] of the traditional method: weight * 1.5 for every
\* keyword at the start of the question, weight for every keyword inside or at
\* the end of it, weight * 0.7 for every other keyword that is a substring
TraditionalScore(ck, category, question_normalized) ==
    Only({ Only({ LET Count(kinds) == Cardinality({i \in 1..Len(match) : match[i] \in kinds})
                  IN RMul(ck[category].peso,
                          Rat(15 * Count({"start"}) + 10 * Count({"inside", "end"})
                                 + 7 * Count({"substring"}), 10)) :
                  match \in { Tuple([i \in 1..Len(keywords) |->
                                       KeywordMatch(normalize_text(keywords[i]), q)]) } }) :
           keywords \in { ck[category].palabras }, q \in {question_normalized} })

\* category_scores[category] of the spaCy method: weight for every lemma that,
\* normalized, is one of the category's normalized keywords
LemmaScore(ck, category, lemmas) ==
    Only({ RMul(ck[category].peso,
                Rat(Cardinality({i \in 1..Len(ls) : normalize_text(ls[i]) \in keywords_normalizadas}), 1)) :
           keywords_normalizadas \in { Range(NormalizedWords(ck[category].palabras)) },
           ls \in {lemmas} })

\* max(category_scores, key=category_scores.get): the first category, in the
\* dict's order, whose score is the greatest
BestCategory(scores) ==
    Only({ CategoryOrder[CHOOSE i \in 1..Len(CategoryOrder) :
               /\ \A j \in 1..Len(CategoryOrder) : RLeq(sc[CategoryOrder[j]], sc[CategoryOrder[i]])
               /\ \A j \in 1..(i - 1) : RLess(sc[CategoryOrder[j]], sc[CategoryOrder[i]])] :
           sc \in {scores} })

\* the greatest score taken as 3 times the weight of one category, books
max_possible_of_one_category(ck) == RMul(ck["books"].peso, Rat(3, 1))

\* sum([data["peso"] * 3 for data in self.category_keywords.values()])
max_possible(ck) ==
    LET Term(i) == RMul(ck[CategoryOrder[i]].peso, Rat(3, 1))
    IN RSumTo(Term, Len(CategoryOrder))

\* x / y for rationals, y > 0
RDiv(x, y) == Only({ Rat(a[1] * b[2], a[2] * b[1]) : a \in {x}, b \in {y} })

\* the exclusive-keyword loop with the categories taken in the reverse order
ExclusiveCategoryReversed(ck, question_normalized) ==
    Only({ IF matches = {} THEN ""
           ELSE CategoryOrder[CHOOSE i \in matches : \A j \in matches : j <= i] :
           matches \in { ExclusiveMatches(ck, question_normalized) } })

\* the exclusive-keyword loop choosing by weighted score: of the categories with
\* an exclusive word in the question, the one the traditional method of
\* categorize_question scores highest
ExclusiveCategoryByScore(ck, question_normalized) ==
    Only({ IF matches = {} THEN ""
           ELSE CategoryOrder[CHOOSE i \in matches : \A j \in matches :
                   \/ RLess(TraditionalScore(ck, CategoryOrder[j], question_normalized),
                            TraditionalScore(ck, CategoryOrder[i], question_normalized))
                   \/ /\ TraditionalScore(ck, CategoryOrder[j], question_normalized)
                            = TraditionalScore(ck, CategoryOrder[i], question_normalized)
                      /\ i <= j] :
           matches \in { ExclusiveMatches(ck, question_normalized) } })

\* the category the exclusive-keyword loop returns: the first one, in the dict's
\* order, that has an exclusive word in the question; "" when there is none
ExclusiveCategory(ck, question_normalized) ==
    Only({ IF matches = {} THEN ""
           ELSE CategoryOrder[CHOOSE i \in matches : \A j \in matches : i <= j] :
           matches \in { ExclusiveMatches(ck, question_normalized) } })

\* the traditional method of categorize_question, from category_scores on
TraditionalCategory(ck, question_normalized) ==
    Only({ Only({ IF RLess(scores[best_category], Rat(1, 2)) THEN <<"general", Rat(1, 2)>>
                  ELSE <<best_category,
                         RMin(RDiv(scores[best_category], max_possible(ck)), One)>> :
                  best_category \in { BestCategory(scores) } }) :
           scores \in { [ books |-> TraditionalScore(ck, "books", q),
                          computers |-> TraditionalScore(ck, "computers", q),
                          cubicles |-> TraditionalScore(ck, "cubicles", q),
                          general |-> TraditionalScore(ck, "general", q) ] :
                        q \in {question_normalized} } })

\* the spaCy method of categorize_question: <<found, category, confidence>>,
\* found FALSE when there are no lemmas or no category scores above 0
LemmaCategory(ck, lemmas) ==
    Only({ IF ls = <<>> THEN <<FALSE, "", Zero>>
           ELSE Only({ Only({ IF RLess(Zero, lemma_scores[lemma_best])
                              THEN <<TRUE, lemma_best,
                                     RMin(RDiv(lemma_scores[lemma_best], Rat(5, 1)), One)>>
                              ELSE <<FALSE, "", Zero>> :
                              lemma_best \in { BestCategory(lemma_scores) } }) :
                       lemma_scores \in { [ books |-> LemmaScore(ck, "books", ls),
                                            computers |-> LemmaScore(ck, "computers", ls),
                                            cubicles |-> LemmaScore(ck, "cubicles", ls),
                                            general |-> LemmaScore(ck, "general", ls) ] } }) :
           ls \in {lemmas} })

\* ChatBot.categorize_question: <<category, confidence>>
categorize_question(ck, spacy_on, question) ==
    Only({ Only({ IF forced # "" THEN <<forced, One>>
                  ELSE Only({ IF by_lemmas[1] THEN <<by_lemmas[2], by_lemmas[3]>>
                              ELSE TraditionalCategory(ck, question_normalized) :
                              by_lemmas \in { LemmaCategory(ck, extract_lemmas_spacy(spacy_on, question)) } }) :
                  forced \in { ExclusiveCategory(ck, question_normalized) } }) :
           question_normalized \in { normalize_text(question) } })


(***************************************************************************)
(* KnowledgeBase (src/src/chatbot/knowledge_base.py)                       *)
(*                                                                         *)
(* A knowledge file is [kind, rules]: kind is "missing" (no such file),    *)
(* "invalid_json", "not_object" (valid JSON that is not an object),        *)
(* "unreadable" (any other error while reading) or "object".  A rule is    *)
(* [key, fields, preguntas, respuesta]; fields is the set of keys its      *)
(* value has, and a field that is not in it has no meaning.  A dict is the *)
(* sequence of its items in insertion order.                               *)
(***************************************************************************)

\* KnowledgeBase.__init__: every category maps to None
KnowledgeInit == [c \in Categories |-> [loaded |-> FALSE, rules |-> <<>>]]

\* KnowledgeBase.load_knowledge_file: <<found, rules>>, found FALSE for None
load_knowledge_file(file) ==
    IF file.kind = "object" THEN <<TRUE, file.rules>> ELSE <<FALSE, <<>>>>

\* KnowledgeBase._create_example_data
create_example_data(category) ==
    IF category = "computers" THEN
      << [ key |-> "uso_computadoras", fields |-> {"preguntas", "respuesta"},
           preguntas |-> << <<"u","s","o"," ","d","e"," ","c","o","m","p","u","t","a","d","o","r","a","s">>,
                            <<"c","o'","m","o"," ","u","s","a","r"," ","o","r","d","e","n","a","d","o","r">> >>,
           respuesta |-> "Las computadoras estan disponibles por orden de llegada. Maximo 2 horas de uso." ] >>
    ELSE IF category = "cubicles" THEN
      << [ key |-> "reserva_cubiculos", fields |-> {"preguntas", "respuesta"},
           preguntas |-> << <<"c","o'","m","o"," ","r","e","s","e","r","v","a","r"," ","c","u","b","i'","c","u","l","o">>,
                            <<"s","a","l","a"," ","d","e"," ","e","s","t","u","d","i","o">> >>,
           respuesta |-> "Reserva cubiculos en recepcion. Maximo 3 horas por dia." ] >>
    ELSE <<>>

\* the body of the loop of KnowledgeBase.load_all_knowledge for one category
LoadCategory(category, file) ==
    LET knowledge_data == load_knowledge_file(file)
    IN IF knowledge_data[1] /\ knowledge_data[2] # <<>>
       THEN [loaded |-> TRUE, rules |-> knowledge_data[2]]
       ELSE IF category \in {"computers", "cubicles"}
            THEN [loaded |-> TRUE, rules |-> create_example_data(category)]
            ELSE [loaded |-> TRUE, rules |-> <<>>]

\* KnowledgeBase.load_all_knowledge
load_all_knowledge(disk) == [c \in Categories |-> LoadCategory(c, disk[c])]

(***************************************************************************)
(* QueryMatcher.load_synonyms and clean_synonyms.  The synonyms file is    *)
(* [kind, table]; a table maps a word to the list of its synonyms.         *)
(***************************************************************************)

NoSynonyms == [w \in {} |-> <<>>]

\* list.remove(x): the list without the first occurrence of x
RECURSIVE RemoveFirst(_, _)
RemoveFirst(s, x) ==
    IF s = <<>> THEN <<>>
    ELSE IF Head(s) = x THEN Tail(s)
    ELSE <<Head(s)>> \o RemoveFirst(Tail(s), x)

\* QueryMatcher.clean_synonyms
clean_synonyms(table) ==
    Only({ IF w_conseguir \in DOMAIN t /\ w_prestar \in Range(t[w_conseguir])
           THEN [t EXCEPT ![w_conseguir] = RemoveFirst(t[w_conseguir], w_prestar)]
           ELSE t :
           t \in {table} })

\* QueryMatcher.load_synonyms
load_synonyms(file) ==
    IF file.kind = "object" THEN clean_synonyms(file.table) ELSE NoSynonyms

(***************************************************************************)
(* ChatBot: retrieval                                                      *)
(***************************************************************************)

\* lemma Jaccard similarity of calculate_similarity_enhanced for one pair
LemmaSimilarity(query, phrase) ==
    Only({ IF query_lemmas # {} /\ phrase_lemmas # {}
           THEN Rat(Cardinality(query_lemmas \cap phrase_lemmas),
                    Cardinality(query_lemmas \cup phrase_lemmas))
           ELSE Zero :
           query_lemmas \in { Range(extract_lemmas_spacy(TRUE, query)) },
           phrase_lemmas \in { Range(extract_lemmas_spacy(TRUE, phrase)) } })

\* ChatBot.calculate_similarity_enhanced
calculate_similarity_enhanced(stop, spacy_on, queries, target_phrases) ==
    Only({ Only({ IF ~spacy_on THEN traditional_similarity
                  ELSE RMaxOf({ RAdd(RMul(LemmaSimilarity(qs[i], ps[j]), Rat(6, 10)),
                                     RMul(traditional_similarity, Rat(4, 10))) :
                                  i \in {k \in 1..Len(qs) : qs[k] # <<>>},
                                  j \in {k \in 1..Len(ps) : ps[k] # <<>>} }) :
                  traditional_similarity \in { calculate_similarity(stop, qs, ps) } }) :
           qs \in {queries}, ps \in {target_phrases} })

\* the loop of search_in_category from rule i on: [raised, answer, confidence];
\* raised is the KeyError of data["preguntas"] or data["respuesta"]
RECURSIVE SearchRules(_, _, _, _, _, _, _)
SearchRules(rules, i, stop, spacy_on, expanded, best_answer, best_confidence) ==
    Only({ IF k > Len(rules)
           THEN [raised |-> FALSE, answer |-> answer, confidence |-> best]
           ELSE IF "preguntas" \notin rules[k].fields
           THEN [raised |-> TRUE, answer |-> answer, confidence |-> best]
           ELSE Only({ IF RLess(best, confidence)
                       THEN IF "respuesta" \notin rules[k].fields
                            THEN [raised |-> TRUE, answer |-> answer, confidence |-> confidence]
                            ELSE SearchRules(rules, k + 1, stop, spacy_on, expanded,
                                             rules[k].respuesta, confidence)
                       ELSE SearchRules(rules, k + 1, stop, spacy_on, expanded, answer, best) :
                       confidence \in { IF spacy_on
                                        THEN calculate_similarity_enhanced(stop, spacy_on, expanded,
                                                                           rules[k].preguntas)
                                        ELSE calculate_similarity(stop, expanded,
                                                                  rules[k].preguntas) } }) :
           k \in {i}, answer \in {best_answer}, best \in {best_confidence} })

\* ChatBot.search_in_category; the answer "None" is Python's None
search_in_category(kb, stop, spacy_on, category, expanded) ==
    Only({ IF ~entry.loaded \/ entry.rules = <<>>
           THEN [raised |-> FALSE, answer |-> "None", confidence |-> Zero]
           ELSE SearchRules(entry.rules, 1, stop, spacy_on, queries, "None", Zero) :
           entry \in { kb[category] }, queries \in {expanded} })

\* round(x, 3) for 0 <= x: the nearest multiple of 1/1000, a tie to the even one
Round3(x) ==
    Only({ LET whole == r[1] \div r[2]
               rest == r[1] % r[2]
               down == (rest * 1000) \div r[2]
               left == (rest * 1000) % r[2]
               up == IF 2 * left > r[2] THEN 1
                     ELSE IF 2 * left = r[2] /\ (whole * 1000 + down) % 2 = 1 THEN 1 ELSE 0
           IN Rat(whole * 1000 + down + up, 1000) :
           r \in {x} })

\* the final confidence as the product of the two confidences
FinalConfidenceOfProduct(best_confidence, category_confidence) ==
    RMin(RMul(best_confidence, category_confidence), One)

\* the final confidence with the category confidence not halved and no clamp
FinalConfidenceUnclamped(best_confidence, category_confidence) ==
    RMul(best_confidence, RAdd(Rat(1, 2), category_confidence))

\* process_question: final_confidence
FinalConfidence(best_confidence, category_confidence) ==
    RMin(RMul(best_confidence, RAdd(Rat(1, 2), RMul(category_confidence, Rat(1, 2)))), One)

\* "basic" if not self.use_spacy else "spacy"
Mode(spacy_on) == IF spacy_on THEN "spacy" ELSE "basic"


(***************************************************************************)
(* ChatBot.process_question: the steps as functions of the shared tables   *)
(***************************************************************************)

\* every order in which the elements of the set S can be listed
RECURSIVE Orders(_)
Orders(S) ==
    Only({ IF T = {} THEN { <<>> }
           ELSE UNION { { <<x>> \o rest : rest \in Orders(T \ {x}) } : x \in T } :
           T \in {S} })

\* ChatBot.expand_query_with_spacy: every list it can return; list(set(...))
\* lists the variants in an order the language does not fix
expand_query_with_spacy(syn, stop, spacy_on, query) ==
    Only({ Only({ LET added == IF /\ spacy_on
                                  /\ lemmas # <<>>
                                  /\ lemma_query # normalize_text(query)
                                  /\ lemma_query \notin traditional_expanded
                               THEN << lemma_query >> ELSE <<>>
                  IN { expanded_queries \o shown :
                       expanded_queries \in Orders(traditional_expanded), shown \in {added} } :
                  lemma_query \in { Join(lemmas) } }) :
           traditional_expanded \in { Range(expand_with_synonyms(syn, stop, MapSeq(LowerChar, query))) },
           lemmas \in { extract_lemmas_spacy(spacy_on, query) } })

\* process_question, lines 400-404: every value expanded_queries can take
ExpandedQueries(syn, stop, spacy_on, question_for_processing) ==
    IF spacy_on
    THEN expand_query_with_spacy(syn, stop, spacy_on, question_for_processing)
    ELSE { expand_with_synonyms(syn, stop, question_for_processing) }

\* the blank check without strip(): only the empty question is blank
BlankQuestionUnstripped(question) == question = <<>>

\* process_question, line 373: if not question or not question.strip()
BlankQuestion(question) == question = <<>> \/ IsBlank(question)

\* process_question, lines 374-380: the answer to a blank question
ClarificationResult(spacy_on) ==
    [raised |-> FALSE, answer |-> ClarificationAnswer, confidence |-> Zero,
     source |-> "general", mode |-> Mode(spacy_on), details |-> <<>>]

\* an exception of process_question, which process_query turns into status 500
RaisedResult(spacy_on) ==
    [raised |-> TRUE, answer |-> "None", confidence |-> Zero, source |-> "",
     mode |-> Mode(spacy_on), details |-> <<>>]

\* process_question, line 425: if best_confidence < threshold
BelowThreshold(category, best_confidence) ==
    RLess(best_confidence, category_thresholds[category])

\* the switch to general without the margin: general_confidence > best_confidence
GeneralWinsWithoutMargin(best_confidence, general_confidence) ==
    RLess(best_confidence, general_confidence)

\* process_question, line 431: if general_confidence > best_confidence + 0.1
GeneralWins(best_confidence, general_confidence) ==
    RLess(RAdd(best_confidence, Rat(1, 10)), general_confidence)

\* the floor of the fallback set at 0.35
BelowFloorAt35(best_confidence) == RLess(best_confidence, Rat(35, 100))

\* the fallback only for a best match that is above 0 and below 0.25
BelowFloorAboveZero(best_confidence) ==
    RLess(Zero, best_confidence) /\ RLess(best_confidence, Rat(1, 4))

\* process_question, line 439: if best_confidence < 0.25
BelowFloor(best_confidence) == RLess(best_confidence, Rat(1, 4))

\* process_question, lines 439-465: the fallback, the final confidence and the
\* dict returned
FinalResult(spacy_on, question, category_confidence, expanded_queries, best_answer, best_confidence, best_source) ==
    Only({ [raised |-> FALSE,
            answer |-> IF fallback THEN get_fallback_response(best_source, question)
                       ELSE best_answer,
            confidence |-> Round3(FinalConfidence(IF fallback THEN Rat(1, 4) ELSE best_confidence,
                                                  category_confidence)),
            source |-> best_source, mode |-> Mode(spacy_on),
            details |-> << Round3(category_confidence), Len(expanded_queries) >>] :
           fallback \in { BelowFloor(best_confidence) } })

\* process_question, lines 407-465, for one value of expanded_queries
AnswerFor(kb, stop, spacy_on, question, category, category_confidence, expanded_queries) ==
    Only({ IF main.raised THEN RaisedResult(spacy_on)
           ELSE IF ~BelowThreshold(category, main.confidence)
           THEN FinalResult(spacy_on, question, category_confidence, expanded_queries,
                            main.answer, main.confidence, category)
           ELSE Only({ IF general.raised THEN RaisedResult(spacy_on)
                       ELSE IF GeneralWins(main.confidence, general.confidence)
                       THEN FinalResult(spacy_on, question, category_confidence, expanded_queries,
                                        general.answer, general.confidence, "general")
                       ELSE FinalResult(spacy_on, question, category_confidence, expanded_queries,
                                        main.answer, main.confidence, category) :
                       general \in { search_in_category(kb, stop, spacy_on, "general",
                                                        expanded_queries) } }) :
           main \in { search_in_category(kb, stop, spacy_on, category, expanded_queries) } })

\* ChatBot.process_question as one call that nothing interrupts: every result it
\* can return on the tables kb, syn, stop and ck
process_question(kb, syn, stop, ck, spacy_on, question) ==
    IF BlankQuestion(question) THEN { ClarificationResult(spacy_on) }
    ELSE Only({ Only({ { AnswerFor(kb, stop, spacy_on, question, categorized[1], categorized[2],
                                   expanded_queries) :
                         expanded_queries \in ExpandedQueries(syn, stop, spacy_on,
                                                              question_for_processing) } :
                       categorized \in { categorize_question(ck, spacy_on, question_for_processing) } }) :
                question_for_processing \in { normalize_text(question) } })

(***************************************************************************)
(* The files found at startup                                              *)
(***************************************************************************)

\* general_rules.json: two rules
GeneralRules ==
    << [ key |-> "horario", fields |-> {"preguntas", "respuesta"},
        preguntas |-> << <<"h","o","r","a","r","i","o"," ","d","e"," ","l","a"," ","b","i","b","l","i","o","t","e","c","a">>,
                        <<"a"," ","q","u","e'"," ","h","o","r","a"," ","a","b","r","e">> >>,
        respuesta |-> "G_HORARIO" ],
       [ key |-> "wifi", fields |-> {"preguntas", "respuesta"},
        preguntas |-> << <<"h","a","y"," ","w","i","f","i">> >>,
        respuesta |-> "G_WIFI" ] >>

\* books_rules.json: two rules
BooksRules ==
    << [ key |-> "prestamo", fields |-> {"preguntas", "respuesta"},
        preguntas |-> << <<"c","o'","m","o"," ","p","r","e","s","t","a","r"," ","u","n"," ","l","i","b","r","o">> >>,
        respuesta |-> "B_PRESTAMO" ],
       [ key |-> "multa", fields |-> {"preguntas", "respuesta"},
        preguntas |-> << <<"m","u","l","t","a"," ","p","o","r"," ","l","i","b","r","o"," ","a","t","r","a","s","a","d","o">> >>,
        respuesta |-> "B_MULTA" ] >>

\* computers_rules.json: one rule
ComputersRules ==
    << [ key |-> "uso", fields |-> {"preguntas", "respuesta"},
        preguntas |-> << <<"u","s","o"," ","d","e"," ","c","o","m","p","u","t","a","d","o","r","a","s">>,
                        <<"c","o'","m","o"," ","u","s","a","r"," ","o","r","d","e","n","a","d","o","r">> >>,
        respuesta |-> "C_USO" ] >>

\* cubicles_rules.json: one rule
CubiclesRules ==
    << [ key |-> "reserva", fields |-> {"preguntas", "respuesta"},
        preguntas |-> << <<"c","o'","m","o"," ","r","e","s","e","r","v","a","r"," ","c","u","b","i'","c","u","l","o">>,
                        <<"s","a","l","a"," ","d","e"," ","e","s","t","u","d","i","o">> >>,
        respuesta |-> "K_RESERVA" ] >>

\* books_rules.json with a rule that has no "preguntas"
BooksRulesNoQuestions ==
    << [ key |-> "prestamo", fields |-> {"respuesta"},
        preguntas |-> <<>>,
        respuesta |-> "B_PRESTAMO" ],
       [ key |-> "multa", fields |-> {"preguntas", "respuesta"},
        preguntas |-> << <<"m","u","l","t","a"," ","p","o","r"," ","l","i","b","r","o"," ","a","t","r","a","s","a","d","o">> >>,
        respuesta |-> "B_MULTA" ] >>

\* general_rules.json with a rule that has no "respuesta"
GeneralRulesNoAnswer ==
    << [ key |-> "horario", fields |-> {"preguntas"},
        preguntas |-> << <<"h","o","r","a","r","i","o"," ","d","e"," ","l","a"," ","b","i","b","l","i","o","t","e","c","a">>,
                        <<"a"," ","q","u","e'"," ","h","o","r","a"," ","a","b","r","e">> >>,
        respuesta |-> "" ],
       [ key |-> "wifi", fields |-> {"preguntas", "respuesta"},
        preguntas |-> << <<"h","a","y"," ","w","i","f","i">> >>,
        respuesta |-> "G_WIFI" ] >>

\* cubicles_rules.json with a rule that is an empty object
CubiclesRulesNoFields ==
    << [ key |-> "reserva", fields |-> {},
        preguntas |-> <<>>,
        respuesta |-> "" ] >>

\* a knowledge file that holds the JSON object rules
ObjectFile(rules) == [kind |-> "object", rules |-> rules]

\* a knowledge file that is absent ("missing"), no JSON ("invalid_json"), JSON
\* but no object ("not_object") or not readable ("unreadable")
BrokenFile(kind) == [kind |-> kind, rules |-> <<>>]

\* the four knowledge files
Files(general, books, computers, cubicles) ==
    [c \in Categories |->
        CASE c = "general" -> general
          [] c = "books" -> books
          [] c = "computers" -> computers
          [] c = "cubicles" -> cubicles]

AllFiles ==
    Files(ObjectFile(GeneralRules), ObjectFile(BooksRules),
          ObjectFile(ComputersRules), ObjectFile(CubiclesRules))

NoFiles ==
    Files(BrokenFile("missing"), BrokenFile("missing"),
          BrokenFile("missing"), BrokenFile("missing"))

DamagedFiles ==
    Files(BrokenFile("invalid_json"), BrokenFile("not_object"),
          BrokenFile("unreadable"), ObjectFile(<<>>))

BooksWithoutQuestions ==
    Files(ObjectFile(GeneralRules), ObjectFile(BooksRulesNoQuestions),
          ObjectFile(ComputersRules), ObjectFile(CubiclesRules))

GeneralWithoutAnswer ==
    Files(ObjectFile(GeneralRulesNoAnswer), ObjectFile(BooksRules),
          BrokenFile("not_object"), BrokenFile("invalid_json"))

CubiclesWithoutFields ==
    Files(BrokenFile("unreadable"), BrokenFile("invalid_json"),
          ObjectFile(ComputersRules), ObjectFile(CubiclesRulesNoFields))

\* the kinds of knowledge file that are missing or malformed
BrokenKinds == {"missing", "invalid_json", "not_object", "unreadable"}

\* synonyms.json is absent
NoSynonymsFile == [kind |-> "missing", table |-> NoSynonyms]

\* synonyms.json with three entries
SynonymsFile ==
    [kind |-> "object",
     table |-> (w_reservar :> << <<"a","p","a","r","t","a","r">> >>)
            @@ (w_sala :> << w_cubiculo >>)
            @@ (w_conseguir :> << w_prestar, <<"l","o","g","r","a","r">> >>)]

\* the questions asked
Questions ==
    { <<>>,
      <<" "," ">>,
      <<" ","\t">>,
      <<"?i","c","o'","m","o"," ","r","e","s","e","r","v","o"," ","u","n"," ","c","u","b","i'","c","u","l","o","?">>,
      <<"h","o","l","a">>,
      <<"?","?","?">>,
      <<"l","i","b","r","o"," ","c","u","b","i","c","u","l","o">>,
      <<"c","u","b","i","c","u","l","o"," ","l","i","b","r","o">>,
      <<"p","c"," ","c","u","b","i","c","u","l","o">>,
      <<"h","o","r","a","r","i","o"," ","l","i","b","r","o">>,
      <<"h","o","r","a","r","i","o"," ","c","u","b","i","c","u","l","o">>,
      <<"m","u","l","t","a"," ","p","o","r"," ","l","i","b","r","o"," ","a","t","r","a","s","a","d","o">>,
      <<"s","a","l","a"," ","d","e"," ","e","s","t","u","d","i","o">>,
      <<"c","a","b","i","n","a">>,
      <<"p","r","i","v","a","d","o">>,
      <<"u","n"," ","c","u","b","i","c","u","l","o"," ","p","r","i","v","a","d","o">>,
      <<"h","o","r","a","r","i","o"," ","c","a","b","i","n","a">>,
      <<"h","a","y"," ","w","i","f","i"," ","p","r","i","v","a","d","o">>,
      <<"s","a","l","a"," ","h","a","y"," ","w","i","f","i">>,
      <<"s","a","l","a"," ","w","i","f","i">>,
      <<"u","s","a","r"," ","p","c">>,
      <<"t","e","x","t","o">>,
      <<"r","e","s","e","r","v","a","r"," ","s","a","l","a">>,
      <<"h","o","r","a">>,
      <<"L","i","b","r","o">>,
      <<"t","o","m","a","r"," ","u","n"," ","l","i","b","r","o">>,
      <<"o","b","t","e'","n","e","r"," ","s","a","l","a">>,
      <<"a"," ","q","u","e'"," ","h","o","r","a"," ","a","b","r","e">>,
      <<"t","e","x","t","o'","m","a","r">>,
      <<"a","u","t","o","r","i","z","a","r">> }

(***************************************************************************)
(* State                                                                   *)
(***************************************************************************)

VARIABLES
    files,              \* the knowledge file of each category, as found at startup
    synonyms_file,      \* the file synonyms.json
    phase,              \* "constructing" until ChatBot.__init__ has run, then "ready"
    knowledge,          \* KnowledgeBase.knowledge
    synonyms,           \* QueryMatcher.synonyms
    stop_words,         \* QueryMatcher.stop_words
    category_keywords,  \* ChatBot.category_keywords
    use_spacy,          \* ChatBot.use_spacy
    call,               \* per worker: the locals of its process_question call
    remembered,         \* an earlier call and its result, for comparison
    input,              \* the arguments of the pure function under check
    output              \* the values it returned, in order

shared == <<knowledge, synonyms, stop_words, category_keywords, use_spacy>>
vars == <<files, synonyms_file, phase, knowledge, synonyms, stop_words,
          category_keywords, use_spacy, call, remembered, input, output>>

\* the workers that serve requests on the one ChatBot of endpoints.py
Workers == {"w1", "w2"}

NoResult ==
    [raised |-> FALSE, answer |-> "None", confidence |-> Zero, source |-> "",
     mode |-> "", details |-> <<>>]

\* the locals of a worker that is not inside process_question
IdleCall ==
    [pc |-> "idle", question |-> <<>>, question_for_processing |-> <<>>,
     category |-> "", category_confidence |-> Zero, expanded_queries |-> <<>>,
     best_answer |-> "None", best_confidence |-> Zero, best_source |-> "",
     fallback |-> FALSE, result |-> NoResult]

NothingRemembered == [set |-> FALSE, question |-> <<>>, result |-> NoResult]

\* before ChatBot.__init__ has set self.category_keywords
NoKeywords == [c \in Categories |-> [palabras |-> <<>>, peso |-> One, exclusivas |-> <<>>]]

(***************************************************************************)
(* ChatBot.__init__                                                        *)
(***************************************************************************)

\* ChatBot.__init__: load_resources loads the knowledge and the synonyms, then
\* the category keywords are set
ChatBot_init ==
    /\ phase = "constructing"
    /\ knowledge' = load_all_knowledge(files)
    /\ synonyms' = load_synonyms(synonyms_file)
    /\ category_keywords' = CategoryKeywordsInit
    /\ phase' = "ready"
    /\ UNCHANGED <<files, synonyms_file, stop_words, use_spacy, call, remembered,
                   input, output>>

(***************************************************************************)
(* ChatBot.process_question, one action per step                           *)
(***************************************************************************)

\* lines 373-383: the blank check, then the normalization of the question
Validate(w, q) ==
    /\ phase = "ready"
    /\ call[w].pc = "idle"
    /\ call' = [call EXCEPT ![w] =
         IF BlankQuestion(q)
         THEN [IdleCall EXCEPT !.pc = "done", !.question = q,
                               !.result = ClarificationResult(use_spacy)]
         ELSE [IdleCall EXCEPT !.pc = "categorize", !.question = q,
                               !.question_for_processing = normalize_text(q)]]
    /\ UNCHANGED <<files, synonyms_file, phase, shared, remembered, input, output>>

\* categorize_question also adding the words of the question to the keywords of
\* the category it returns
CategorizeLearning(w) ==
    /\ call[w].pc = "categorize"
    /\ \E categorized \in { categorize_question(category_keywords, use_spacy,
                                                call[w].question_for_processing) } :
          /\ call' = [call EXCEPT ![w].pc = "expand",
                                  ![w].category = categorized[1],
                                  ![w].category_confidence = categorized[2]]
          /\ category_keywords' =
                [category_keywords EXCEPT ![categorized[1]].palabras =
                    @ \o Split(call[w].question_for_processing)]
    /\ UNCHANGED <<files, synonyms_file, phase, knowledge, synonyms, stop_words,
                   use_spacy, remembered, input, output>>

\* line 392: categorize_question on the normalized question
Categorize(w) ==
    /\ call[w].pc = "categorize"
    /\ \E categorized \in { categorize_question(category_keywords, use_spacy,
                                                call[w].question_for_processing) } :
          call' = [call EXCEPT ![w].pc = "expand",
                               ![w].category = categorized[1],
                               ![w].category_confidence = categorized[2]]
    /\ UNCHANGED <<files, synonyms_file, phase, shared, remembered, input, output>>

\* the expansion taking the synonym it uses out of the table (pop(0) for [:1])
ExpandConsuming(w) ==
    /\ call[w].pc = "expand"
    /\ \E expanded_queries \in ExpandedQueries(synonyms, stop_words, use_spacy,
                                               call[w].question_for_processing) :
         call' = [call EXCEPT ![w].pc = "search",
                              ![w].expanded_queries = expanded_queries]
    /\ synonyms' =
          [word \in DOMAIN synonyms |->
              IF /\ word \in Range(Split(call[w].question_for_processing))
                 /\ synonyms[word] # <<>>
              THEN Tail(synonyms[word]) ELSE synonyms[word]]
    /\ UNCHANGED <<files, synonyms_file, phase, knowledge, stop_words,
                   category_keywords, use_spacy, remembered, input, output>>

\* lines 398-404: the expansion of the normalized question
Expand(w) ==
    /\ call[w].pc = "expand"
    /\ \E expanded_queries \in ExpandedQueries(synonyms, stop_words, use_spacy,
                                               call[w].question_for_processing) :
         call' = [call EXCEPT ![w].pc = "search",
                              ![w].expanded_queries = expanded_queries]
    /\ UNCHANGED <<files, synonyms_file, phase, shared, remembered, input, output>>

\* lines 410-425: the search in the category of the question; an exception ends
\* the call
SearchCategory(w) ==
    /\ call[w].pc = "search"
    /\ \E found \in { search_in_category(knowledge, stop_words, use_spacy,
                                         call[w].category, call[w].expanded_queries) } :
          call' = [call EXCEPT ![w] =
            IF found.raised
            THEN [@ EXCEPT !.pc = "done", !.result = RaisedResult(use_spacy)]
            ELSE [@ EXCEPT !.pc = IF BelowThreshold(call[w].category, found.confidence)
                                  THEN "general" ELSE "floor",
                           !.best_answer = found.answer,
                           !.best_confidence = found.confidence,
                           !.best_source = call[w].category]]
    /\ UNCHANGED <<files, synonyms_file, phase, shared, remembered, input, output>>

\* lines 429-437: the search in general and the switch to its answer
SearchGeneral(w) ==
    /\ call[w].pc = "general"
    /\ \E found \in { search_in_category(knowledge, stop_words, use_spacy,
                                         "general", call[w].expanded_queries) } :
          call' = [call EXCEPT ![w] =
            IF found.raised
            THEN [@ EXCEPT !.pc = "done", !.result = RaisedResult(use_spacy)]
            ELSE IF GeneralWins(call[w].best_confidence, found.confidence)
            THEN [@ EXCEPT !.pc = "floor",
                           !.best_answer = found.answer,
                           !.best_confidence = found.confidence,
                           !.best_source = "general"]
            ELSE [@ EXCEPT !.pc = "floor"]]
    /\ UNCHANGED <<files, synonyms_file, phase, shared, remembered, input, output>>

\* lines 439-465: the fallback below 0.25, the final confidence, the result
Finish(w) ==
    /\ call[w].pc = "floor"
    /\ call' = [call EXCEPT ![w] =
         [@ EXCEPT !.pc = "done",
                   !.fallback = BelowFloor(call[w].best_confidence),
                   !.result = FinalResult(use_spacy, call[w].question,
                                          call[w].category_confidence,
                                          call[w].expanded_queries, call[w].best_answer,
                                          call[w].best_confidence, call[w].best_source)]]
    /\ UNCHANGED <<files, synonyms_file, phase, shared, remembered, input, output>>

\* process_query: the response is sent, the worker is free again
Return(w) ==
    /\ call[w].pc = "done"
    /\ call' = [call EXCEPT ![w] = IdleCall]
    /\ UNCHANGED <<files, synonyms_file, phase, shared, remembered, input, output>>

\* process_query: the response is sent; the first call so ended is remembered
Remember(w) ==
    /\ call[w].pc = "done"
    /\ ~remembered.set
    /\ remembered' = [set |-> TRUE, question |-> call[w].question,
                      result |-> call[w].result]
    /\ call' = [call EXCEPT ![w] = IdleCall]
    /\ UNCHANGED <<files, synonyms_file, phase, shared, input, output>>

\* one step of the call of worker w
Step(w) ==
    \/ Categorize(w)
    \/ Expand(w)
    \/ SearchCategory(w)
    \/ SearchGeneral(w)
    \/ Finish(w)

(***************************************************************************)
(* One ChatBot serving one request at a time                               *)
(***************************************************************************)

Setup(f, sf, spacy_on) == [files |-> f, synonyms_file |-> sf, use_spacy |-> spacy_on]

\* the installations: the files found at startup and whether spaCy is used
Setups ==
    { Setup(AllFiles, NoSynonymsFile, FALSE),
      Setup(AllFiles, SynonymsFile, FALSE),
      Setup(AllFiles, NoSynonymsFile, TRUE),
      Setup(AllFiles, SynonymsFile, TRUE),
      Setup(NoFiles, NoSynonymsFile, FALSE),
      Setup(DamagedFiles, SynonymsFile, FALSE),
      Setup(BooksWithoutQuestions, SynonymsFile, FALSE),
      Setup(GeneralWithoutAnswer, NoSynonymsFile, TRUE),
      Setup(CubiclesWithoutFields, NoSynonymsFile, FALSE) }

\* the state when ChatBot.__init__ starts, on the installation s
InitOn(s) ==
    /\ files = s.files
    /\ synonyms_file = s.synonyms_file
    /\ use_spacy = s.use_spacy
    /\ phase = "constructing"
    /\ knowledge = KnowledgeInit
    /\ synonyms = NoSynonyms
    /\ stop_words = MatcherStopWords
    /\ category_keywords = NoKeywords
    /\ call = [w \in Workers |-> IdleCall]
    /\ remembered = NothingRemembered
    /\ output = <<>>

Init == \E s \in Setups : InitOn(s) /\ input = <<>>

Next ==
    \/ ChatBot_init
    \/ \E q \in Questions : Validate("w1", q)
    \/ Step("w1")
    \/ Return("w1")

Spec == Init /\ [][Next]_vars

(***************************************************************************)
(* The same question asked again after other questions                     *)
(***************************************************************************)

RepeatSetups ==
    { Setup(AllFiles, SynonymsFile, FALSE),
      Setup(AllFiles, SynonymsFile, TRUE),
      Setup(BooksWithoutQuestions, SynonymsFile, FALSE) }

RepeatQuestions ==
    { <<" "," ">>,
      <<"h","o","l","a">>,
      <<"r","e","s","e","r","v","a","r"," ","s","a","l","a">>,
      <<"t","o","m","a","r"," ","u","n"," ","l","i","b","r","o">>,
      <<"s","a","l","a"," ","h","a","y"," ","w","i","f","i">>,
      <<"o","b","t","e'","n","e","r"," ","s","a","l","a">> }

RepeatInit == \E s \in RepeatSetups : InitOn(s) /\ input = <<>>

RepeatNext ==
    \/ ChatBot_init
    \/ \E q \in RepeatQuestions : Validate("w1", q)
    \/ Step("w1")
    \/ Return("w1")
    \/ Remember("w1")

SpecRepeat == RepeatInit /\ [][RepeatNext]_vars

(***************************************************************************)
(* Two requests in flight on one ChatBot                                   *)
(***************************************************************************)

ConcurrentSetups ==
    { Setup(AllFiles, SynonymsFile, FALSE),
      Setup(AllFiles, NoSynonymsFile, TRUE) }

ConcurrentQuestions ==
    { <<"r","e","s","e","r","v","a","r"," ","s","a","l","a">>,
      <<"t","o","m","a","r"," ","u","n"," ","l","i","b","r","o">>,
      <<"s","a","l","a"," ","h","a","y"," ","w","i","f","i">> }

ConcurrentInit == \E s \in ConcurrentSetups : InitOn(s) /\ input = <<>>

ConcurrentNext ==
    \/ ChatBot_init
    \/ \E w \in Workers :
          \/ \E q \in ConcurrentQuestions : Validate(w, q)
          \/ Step(w)
          \/ Return(w)

SpecConcurrent == ConcurrentInit /\ [][ConcurrentNext]_vars

(***************************************************************************)
(* QueryMatcher.normalize_text applied twice                               *)
(***************************************************************************)

\* pieces of text: parts of the rewritten words, with and without accents,
\* upper case, punctuation and white space
Fragments ==
    << <<"o","b","t">>, <<"e'">>, <<"e">>, <<"n","e","r">>,
       <<"c","o","n","s","e","g","u","i">>, <<"r">>,
       <<"t","o">>, <<"m","a","r">>, <<"O'">>, <<"?">>, <<" ">>, <<"T","O'">> >>

\* the greatest number of fragments in a text
MaxFragments == 2

\* the texts made of at most n fragments
RECURSIVE Texts(_)
Texts(n) ==
    IF n = 0 THEN { <<>> }
    ELSE Texts(n - 1) \cup
         { text \o Fragments[i] : text \in Texts(n - 1), i \in 1..Len(Fragments) }

NormalizeInit ==
    /\ InitOn(Setup(AllFiles, SynonymsFile, FALSE))
    /\ input \in Texts(MaxFragments)

\* normalize_text applied to the input, then to what it returned
Normalize ==
    /\ phase = "ready"
    /\ Len(output) < 2
    /\ output' = Append(output, normalize_text(IF output = <<>> THEN input
                                               ELSE output[Len(output)]))
    /\ UNCHANGED <<files, synonyms_file, phase, shared, call, remembered, input>>

NormalizeNext == ChatBot_init \/ Normalize

SpecNormalize == NormalizeInit /\ [][NormalizeNext]_vars

(***************************************************************************)
(* QueryMatcher.calculate_similarity on the variants of a query            *)
(***************************************************************************)

\* synonyms.json with entries that bring in words of other categories
CrossingSynonymsFile ==
    [kind |-> "object",
     table |-> (w_reservar :> << w_computadora >>)
            @@ (w_sala :> << w_libro, w_cubiculo >>)]

SimilaritySetups ==
    { Setup(AllFiles, NoSynonymsFile, FALSE),
      Setup(AllFiles, SynonymsFile, FALSE),
      Setup(AllFiles, CrossingSynonymsFile, FALSE) }

\* the words of the queries
QueryWords == << w_libro, w_cubiculo, w_sala, w_reservar >>

\* the greatest number of words in a query
MaxQueryWords == 2

\* the queries of at most n words
RECURSIVE Queries(_)
Queries(n) ==
    IF n = 0 THEN { <<>> }
    ELSE Queries(n - 1) \cup
         { IF query = <<>> THEN QueryWords[i] ELSE query \o <<" ">> \o QueryWords[i] :
              query \in Queries(n - 1), i \in 1..Len(QueryWords) }

\* the example questions of a rule
Examples ==
    { <<"r","e","s","e","r","v","a","r"," ","l","i","b","r","o">>,
      <<"?i","L","i","b","r","o","?">>,
      <<"r","e","s","e","r","v","a","r"," ","u","n"," ","c","u","b","i'","c","u","l","o">>,
      <<"s","a","l","a"," ","c","o","m","p","u","t","a","d","o","r","a">>,
      <<"l","i","b","r","o"," ","c","u","b","i","c","u","l","o">>,
      <<"r","e","s","e","r","v","a","r"," ","s","a","l","a">>,
      <<"l","i","b","r","o","s">> }

SimilarityInit ==
    /\ \E s \in SimilaritySetups : InitOn(s)
    /\ input \in [query : Queries(MaxQueryWords), example : Examples]

\* calculate_similarity(expand_with_synonyms(query), [example])
Score ==
    /\ phase = "ready"
    /\ output = <<>>
    /\ output' = << calculate_similarity(stop_words,
                        expand_with_synonyms(synonyms, stop_words, input.query),
                        << input.example >>) >>
    /\ UNCHANGED <<files, synonyms_file, phase, shared, call, remembered, input>>

SimilarityNext == ChatBot_init \/ Score

SpecSimilarity == SimilarityInit /\ [][SimilarityNext]_vars

(***************************************************************************)
(* SynonymManager (src/app/services/synonyms.py)                           *)
(*                                                                         *)
(* The file data/knowledge/synonyms.json is [kind, groups]: kind is        *)
(* "missing", "invalid_json" or "object"; groups is the dict as the        *)
(* sequence of its items <<group_name, words>> in insertion order.  A      *)
(* manager is [raised, synonym_groups, word_to_group], the two dicts as    *)
(* functions; raised is the exception json.load lets out of __init__.      *)
(***************************************************************************)

\* str.strip(): no white space at the ends
Strip(s) ==
    Only({ Only({ IF inked = {} THEN <<>>
                  ELSE SubSeq(t, CHOOSE i \in inked : \A j \in inked : i <= j,
                                 CHOOSE i \in inked : \A j \in inked : j <= i) :
                  inked \in { {i \in 1..Len(t) : ~IsSpace(t[i])} } }) :
           t \in {s} })

\* SynonymManager._normalize_word
_normalize_word(word) == Strip(MapSeq(LowerChar, word))

\* SynonymManager.__init__, lines 7-8: the two dicts are empty
EmptyManager == [raised |-> FALSE, synonym_groups |-> <<>>, word_to_group |-> <<>>]

\* the body of the loop over the groups: the group is stored and every word of
\* it is mapped to the group, whatever group it was mapped to before
AddGroup(manager, group_name, words) ==
    Only({ [raised |-> FALSE,
            synonym_groups |-> (group_name :> normalized_words) @@ m.synonym_groups,
            word_to_group |-> [w \in normalized_words |-> group_name] @@ m.word_to_group] :
           m \in {manager},
           normalized_words \in { Range(MapSeq(_normalize_word, words)) } })

\* for group_name, words in synonym_groups.items()
RECURSIVE LoadGroups(_, _)
LoadGroups(manager, groups) ==
    Only({ IF g = <<>> THEN manager
           ELSE LoadGroups(AddGroup(manager, g[1][1], g[1][2]), Tail(g)) :
           g \in {groups} })

\* default_synonyms of _create_default_synonyms
DefaultSynonyms ==
    << << <<"p","r","e","s","t","a","r">>,
          << <<"p","e","d","i","r"," ","p","r","e","s","t","a","d","o">>,
             <<"t","o","m","a","r"," ","p","r","e","s","t","a","d","o">>,
             <<"r","e","t","i","r","a","r">>, <<"s","a","c","a","r">> >> >>,
       << <<"l","i","b","r","o">>,
          << <<"l","i","b","r","o","s">>, <<"e","j","e","m","p","l","a","r">>,
             <<"v","o","l","u","m","e","n">>, <<"o","b","r","a">> >> >>,
       << <<"d","e","v","o","l","v","e","r">>,
          << <<"e","n","t","r","e","g","a","r">>, <<"r","e","g","r","e","s","a","r">>,
             <<"r","e","s","t","i","t","u","i","r">> >> >>,
       << <<"m","u","l","t","a">>,
          << <<"s","a","n","c","i","o'","n">>,
             <<"p","e","n","a","l","i","z","a","c","i","o'","n">>,
             <<"r","e","c","a","r","g","o">> >> >>,
       << <<"r","e","n","o","v","a","r">>,
          << <<"p","r","o","r","r","o","g","a","r">>, <<"e","x","t","e","n","d","e","r">>,
             <<"p","r","o","l","o","n","g","a","r">> >> >>,
       << <<"h","o","r","a","r","i","o">>,
          << <<"h","o","r","a","s">>,
             <<"h","o","r","a","s"," ","d","e"," ","a","t","e","n","c","i","o'","n">>,
             <<"t","i","e","m","p","o">>, <<"j","o","r","n","a","d","a">> >> >>,
       << <<"a","b","i","e","r","t","o">>,
          << <<"a","b","r","i","r">>,
             <<"a","b","i","e","r","t","o"," ","a","l"," ","p","u'","b","l","i","c","o">>,
             <<"a","t","e","n","d","e","r">> >> >>,
       << <<"c","e","r","r","a","d","o">>,
          << <<"c","e","r","r","a","r">>, <<"n","o"," ","a","b","i","e","r","t","o">>,
             <<"s","i","n"," ","a","t","e","n","c","i","o'","n">> >> >> >>

\* words + [group_name]
WithGroupName(item) == << item[1], Append(item[2], item[1]) >>

\* SynonymManager._create_default_synonyms
_create_default_synonyms(manager) ==
    LoadGroups(manager, MapSeq(WithGroupName, DefaultSynonyms))

\* SynonymManager._load_synonyms, on the dicts as __init__ left them
_load_synonyms(file) ==
    Only({ IF f.kind = "object" THEN LoadGroups(EmptyManager, f.groups)
           ELSE IF f.kind = "missing" THEN _create_default_synonyms(EmptyManager)
           ELSE [EmptyManager EXCEPT !.raised = TRUE] :
           f \in {file} })

\* SynonymManager.get_synonyms
get_synonyms(manager, word) ==
    Only({ IF normalized \in DOMAIN manager.word_to_group
           THEN manager.synonym_groups[manager.word_to_group[normalized]]
           ELSE {normalized} :
           normalized \in { _normalize_word(word) } })

(***************************************************************************)
(* A SynonymManager and a QueryMatcher, each loaded from its file, then    *)
(* asked for synonyms and variants                                         *)
(***************************************************************************)

\* the names of the groups of a file
GroupNames == { <<"l","i","b","r","o">>, <<"t","e","x","t","o">> }

\* the words of the groups of a file
GroupWords == << <<"l","i","b","r","o">>, <<"o","b","r","a">>, <<"O","b","r","a"," ">> >>

\* the greatest number of words in a group of a file
MaxGroupWords == 2

\* the lists of at most n words
RECURSIVE WordLists(_)
WordLists(n) ==
    IF n = 0 THEN { <<>> }
    ELSE WordLists(n - 1) \cup
         { Append(words, GroupWords[i]) : words \in WordLists(n - 1), i \in 1..Len(GroupWords) }

\* the files: missing, not JSON, and the dicts of at most two groups
GroupFiles ==
    { [kind |-> "missing", groups |-> <<>>], [kind |-> "invalid_json", groups |-> <<>>] }
    \cup { [kind |-> "object", groups |-> <<>>] }
    \cup { [kind |-> "object", groups |-> << <<a, u>> >>] :
              a \in GroupNames, u \in WordLists(MaxGroupWords) }
    \cup { [kind |-> "object", groups |-> << <<names[1], u>>, <<names[2], v>> >>] :
              names \in {n \in GroupNames \X GroupNames : n[1] # n[2]},
              u \in WordLists(MaxGroupWords), v \in WordLists(MaxGroupWords) }

\* the words looked up
LookupWords ==
    { <<"l","i","b","r","o">>, <<" ","O","B","R","A">>, <<"s","a","l","a">>,
      <<"t","e","x","t","o">> }

\* the queries expanded
ExpandedTexts ==
    { <<"r","e","s","e","r","v","a","r"," ","s","a","l","a">>,
      <<"u","s","a","r"," ","t","e","x","t","o">>,
      <<"c","o'","m","o"," ","c","o","n","s","e","g","u","i","r"," ","u","n"," ","l","i","b","r","o">>,
      <<"u","s","a","r"," ","p","c">> }

\* synonyms.json with a synonym that exclusive_words forbids
ExclusiveSynonymsFile ==
    [kind |-> "object",
     table |-> (w_texto :> << w_computadora >>)
            @@ (w_conseguir :> << w_prestar, <<"l","o","g","r","a","r">> >>)]

\* synonyms.json with an entry for a word of two letters and one for a
\* category-defining keyword
ShortWordSynonymsFile ==
    [kind |-> "object",
     table |-> (<<"p","c">> :> << w_ordenador >>)
            @@ (w_texto :> << w_obra >>)
            @@ (w_libro :> << w_texto >>)]

SynonymSetups ==
    { Setup(AllFiles, NoSynonymsFile, FALSE),
      Setup(AllFiles, [kind |-> "invalid_json", table |-> NoSynonyms], FALSE),
      Setup(AllFiles, SynonymsFile, FALSE),
      Setup(AllFiles, ExclusiveSynonymsFile, FALSE),
      Setup(AllFiles, ShortWordSynonymsFile, FALSE) }

SynonymInit ==
    /\ \E s \in SynonymSetups : InitOn(s)
    /\ input \in GroupFiles

\* SynonymManager.__init__
SynonymManager_init ==
    /\ output = <<>>
    /\ output' = << [op |-> "SynonymManager", manager |-> _load_synonyms(input)] >>
    /\ UNCHANGED <<files, synonyms_file, phase, shared, call, remembered, input>>

\* SynonymManager.get_synonyms(word) on the manager constructed
GetSynonyms(word) ==
    /\ Len(output) = 1
    /\ ~output[1].manager.raised
    /\ output' = Append(output, [op |-> "get_synonyms", word |-> word,
                                 synonyms |-> get_synonyms(output[1].manager, word)])
    /\ UNCHANGED <<files, synonyms_file, phase, shared, call, remembered, input>>

\* QueryMatcher.expand_with_synonyms(query) on the ChatBot's matcher
ExpandWithSynonyms(query) ==
    /\ phase = "ready"
    /\ Len(output) = 1
    /\ output' = Append(output, [op |-> "expand_with_synonyms", query |-> query,
                                 variants |-> expand_with_synonyms(synonyms, stop_words, query)])
    /\ UNCHANGED <<files, synonyms_file, phase, shared, call, remembered, input>>

SynonymNext ==
    \/ ChatBot_init
    \/ SynonymManager_init
    \/ \E word \in LookupWords : GetSynonyms(word)
    \/ \E query \in ExpandedTexts : ExpandWithSynonyms(query)

SpecSynonyms == SynonymInit /\ [][SynonymNext]_vars

(***************************************************************************)
(* The internal scores: QueryMatcher.calculate_similarity on lists of      *)
(* variants and of example questions, ChatBot.categorize_question on a     *)
(* question                                                                *)
(***************************************************************************)

\* the variants scored
ScoredVariants ==
    << <<>>,
       <<"l","i","b","r","o">>,
       <<"r","e","s","e","r","v","a","r"," ","s","a","l","a">>,
       <<"r","e","s","e","r","v","a","r"," ","p","r","e","s","t","a","r"," ","d","e","v","o","l","v","e","r">>,
       <<"r","e","s","e","r","v","a","r"," ","u","s","a","r"," ","s","a","l","a">> >>

\* the greatest number of variants in a list
MaxVariants == 2

\* the lists of at most n variants
RECURSIVE VariantLists(_)
VariantLists(n) ==
    IF n = 0 THEN { <<>> }
    ELSE VariantLists(n - 1) \cup
         { Append(queries, ScoredVariants[i]) :
              queries \in VariantLists(n - 1), i \in 1..Len(ScoredVariants) }

\* the example questions scored
ScoredExamples ==
    { <<>>,
      <<"h","a","y"," ","w","i","f","i">>,
      <<"r","e","s","e","r","v","a","r"," ","p","r","e","s","t","a","r"," ","d","e","v","o","l","v","e","r">>,
      <<"?i","U","s","a","r"," ","y"," ","r","e","s","e","r","v","a","r"," ","l","a"," ","s","a","l","a","?">> }

\* the lists of at most two example questions
ExampleLists ==
    { <<>> } \cup { <<e>> : e \in ScoredExamples }
             \cup { <<e, f>> : e \in ScoredExamples, f \in ScoredExamples }

\* questions with the keyword sala as the whole text, as a word and inside one
KeywordQuestions ==
    { <<"s","a","l","a">>,
      <<"S","a","l","a","?">>,
      <<"l","a"," ","s","a","l","a"," ","e","s">>,
      <<"s","a","l","a","s"," ","l","i","b","r","e","s">> }

\* questions with several words of one category in a row and a keyword of
\* another category before them
PhraseQuestions ==
    { <<"p","r","e'","s","t","a","m","o"," ","a"," ","d","o","m","i","c","i","l","i","o">>,
      <<"i","n","t","e","r","n","e","t"," ","p","r","e'","s","t","a","m","o"," ","a"," ","d","o","m","i","c","i","l","i","o">>,
      <<"i","n","t","e","r","n","e","t"," ","e","n"," ","s","a","l","a"," ","d","e"," ","e","s","t","u","d","i","o">> }

\* questions with the words of get_fallback_response that Questions lacks
FallbackQuestions ==
    { <<"o","r","d","e","n","a","d","o","r">>,
      <<"c","o","m","p","u","t","a","d","o","r","a"," ","e","n"," ","s","a","l","a">>,
      <<"C","a","b","i","n","a"," ","o"," ","c","u","b","i'","c","u","l","o">> }

\* the categories get_fallback_response is called with: those of
\* fallback_responses and one that is not a key of it
FallbackCategories == Categories \cup {"otros"}

ScoresSetups ==
    { Setup(AllFiles, SynonymsFile, FALSE),
      Setup(AllFiles, SynonymsFile, TRUE) }

\* the calls made: one of calculate_similarity, of categorize_question or of
\* get_fallback_response
ScoresInit ==
    /\ \E s \in ScoresSetups : InitOn(s)
    /\ \/ input \in [op : {"calculate_similarity"},
                     queries : VariantLists(MaxVariants), target_phrases : ExampleLists]
       \/ input \in [op : {"get_fallback_response"}, category : FallbackCategories,
                     question : Questions \cup FallbackQuestions]
       \/ input \in [op : {"categorize_question"}, question : (Questions \cup KeywordQuestions) \cup PhraseQuestions]

\* calculate_similarity(queries, target_phrases)
ScoreLists ==
    /\ phase = "ready"
    /\ output = <<>>
    /\ input.op = "calculate_similarity"
    /\ output' = << calculate_similarity(stop_words, input.queries, input.target_phrases) >>
    /\ UNCHANGED <<files, synonyms_file, phase, shared, call, remembered, input>>

\* categorize_question(question)
CategorizeText ==
    /\ phase = "ready"
    /\ output = <<>>
    /\ input.op = "categorize_question"
    /\ output' = << categorize_question(category_keywords, use_spacy, input.question) >>
    /\ UNCHANGED <<files, synonyms_file, phase, shared, call, remembered, input>>

\* get_fallback_response(category, question)
FallbackText ==
    /\ phase = "ready"
    /\ output = <<>>
    /\ input.op = "get_fallback_response"
    /\ output' = << get_fallback_response(input.category, input.question) >>
    /\ UNCHANGED <<files, synonyms_file, phase, shared, call, remembered, input>>

ScoresNext == ChatBot_init \/ ScoreLists \/ CategorizeText \/ FallbackText

SpecScores == ScoresInit /\ [][ScoresNext]_vars

(***************************************************************************)
(* Properties of one request at a time (Spec)                              *)
(***************************************************************************)

\* the calls that have returned a result
Returned == {w \in Workers : call[w].pc = "done" /\ ~call[w].result.raised}

\* the calls that have been categorized
Categorized == {w \in Workers : call[w].pc \in {"expand", "search", "general", "floor"}}

\* the answers of the rules of a category
RuleAnswers(category) ==
    {knowledge[category].rules[i].respuesta : i \in 1..Len(knowledge[category].rules)}

\* C1: a call whose best match confidence, after the optional switch to general,
\* is below 0.25 returns one of the fallback strings of get_fallback_response
\* and the confidence 0.25 exactly.
C1_FallbackReturnsQuarter ==
    \A w \in Returned :
        call[w].fallback =>
            /\ call[w].result.answer \in FallbackStrings
            /\ call[w].result.confidence = Rat(1, 4)

\* C3, as claimed: whenever the normalized question contains an exclusive
\* keyword of a category C, categorize_question returns (C, 1.0), whatever other
\* exclusive keywords it contains.
C3_EveryExclusiveCategoryReturned ==
    \A w \in Categorized : \A category \in Categories :
        HasExclusive(category_keywords, category,
                     normalize_text(call[w].question_for_processing)) =>
            /\ call[w].category = category
            /\ call[w].category_confidence = One

\* C3, amended: categorize_question returns (C, 1.0) for the first category C, in
\* the order books, computers, cubicles, general, that has an exclusive keyword
\* occurring in the question as categorize_question normalizes it.
C3_FirstExclusiveCategoryReturned ==
    \A w \in Categorized : \A i \in 1..Len(CategoryOrder) :
        LET question_normalized == normalize_text(call[w].question_for_processing)
        IN ( /\ HasExclusive(category_keywords, CategoryOrder[i], question_normalized)
             /\ \A j \in 1..(i - 1) :
                   ~HasExclusive(category_keywords, CategoryOrder[j], question_normalized) )
           => /\ call[w].category = CategoryOrder[i]
              /\ call[w].category_confidence = One

\* a question with exclusive keywords of two categories has been categorized
C3_TwoExclusivesCategorized ==
    \E w \in Categorized :
        LET question_normalized == normalize_text(call[w].question_for_processing)
        IN /\ HasExclusive(category_keywords, "books", question_normalized)
           /\ HasExclusive(category_keywords, "cubicles", question_normalized)
           /\ call[w].category = "books"

\* C5: the confidence process_question returns is at least 0 and at most 1, on
\* the blank path, the fallback path and the matched-rule path.
C5_ConfidenceInUnitInterval ==
    \A w \in Returned :
        /\ RLeq(Zero, call[w].result.confidence)
        /\ RLeq(call[w].result.confidence, One)

\* a call has returned the answer of a rule with a confidence above 0.9
C5_StrongMatchReturned ==
    \E w \in Returned :
        /\ ~call[w].fallback
        /\ call[w].result.answer \in RuleAnswers(call[w].result.source)
        /\ RLess(Rat(9, 10), call[w].result.confidence)

\* C8: for an empty or all-whitespace question process_question returns the
\* clarification answer with confidence 0 and source general, and has neither
\* normalized, categorized, expanded nor scored anything.
C8_BlankQuestionClarified ==
    \A w \in Workers :
        (call[w].pc = "done" /\ \A i \in 1..Len(call[w].question) : IsSpace(call[w].question[i]))
        => /\ call[w].result.answer = ClarificationAnswer
           /\ call[w].result.confidence = Zero
           /\ call[w].result.source = "general"
           /\ ~call[w].result.raised
           /\ call[w].category = ""
           /\ call[w].expanded_queries = <<>>
           /\ call[w].best_source = ""
           /\ call[w].best_answer = "None"

\* a call with a question of white space only has ended
C8_WhitespaceQuestionAnswered ==
    \E w \in Workers :
        /\ call[w].pc = "done"
        /\ Len(call[w].question) = 2
        /\ \A i \in 1..Len(call[w].question) : IsSpace(call[w].question[i])

\* the best cubicles score and the best general score of the call of w
CubiclesScore(w) ==
    search_in_category(knowledge, stop_words, use_spacy, "cubicles", call[w].expanded_queries)
GeneralScore(w) ==
    search_in_category(knowledge, stop_words, use_spacy, "general", call[w].expanded_queries)

\* C9, as claimed: for a question categorized as cubicles the answer is a
\* cubicles rule's answer if some example scores above 0.35, and otherwise a
\* cubicle fallback string.
C9_CubiclesRuleAbove35ElseFallback ==
    \A w \in Returned :
        call[w].category = "cubicles" =>
            IF RLess(Rat(35, 100), CubiclesScore(w).confidence)
            THEN call[w].result.answer \in RuleAnswers("cubicles")
            ELSE call[w].result.answer \in {FallbackCubicleReserve, fallback_responses["cubicles"]}

\* C9, amended: for a question categorized as cubicles that process_question
\* answers, general takes over when the best cubicles score is below 0.4 and the
\* best general score exceeds it by more than 0.1; the answer is that of the
\* best-scoring rule of the category that holds (cubicles, or general after the
\* take-over) if its score is at least 0.25, and otherwise the string
\* get_fallback_response gives for that category and the question.
C9_CubiclesAnswer ==
    \A w \in Returned :
        call[w].category = "cubicles" =>
            LET cubicles == CubiclesScore(w)
                taken_over == /\ RLess(cubicles.confidence, Rat(4, 10))
                              /\ RLess(RAdd(cubicles.confidence, Rat(1, 10)),
                                       GeneralScore(w).confidence)
                best == IF taken_over THEN GeneralScore(w) ELSE cubicles
                source == IF taken_over THEN "general" ELSE "cubicles"
            IN /\ call[w].result.source = source
               /\ call[w].result.answer =
                     IF RLess(best.confidence, Rat(1, 4))
                     THEN get_fallback_response(source, call[w].question)
                     ELSE best.answer

\* a cubicles question whose best score lies between 0.25 and 0.35 has been
\* answered with the cubicles rule
C9_WeakCubiclesMatchAnswered ==
    \E w \in Returned :
        /\ call[w].category = "cubicles"
        /\ call[w].result.source = "cubicles"
        /\ RLeq(Rat(1, 4), CubiclesScore(w).confidence)
        /\ RLess(CubiclesScore(w).confidence, Rat(35, 100))
        /\ call[w].result.answer \in RuleAnswers("cubicles")

\* a knowledge file that is missing or malformed
Malformed(file) ==
    \/ file.kind \in BrokenKinds
    \/ \E i \in 1..Len(file.rules) : file.rules[i].fields # {"preguntas", "respuesta"}

\* C10: a category whose knowledge file is missing or malformed has an empty
\* rule set after the load, and no later call of process_question raises.
C10_BrokenFileGivesEmptyRules ==
    /\ phase = "ready" =>
          \A category \in Categories :
              Malformed(files[category]) => knowledge[category].rules = <<>>
    /\ \A w \in Workers : call[w].pc = "done" => ~call[w].result.raised

(***************************************************************************)
(* Properties of normalize_text (SpecNormalize)                            *)
(***************************************************************************)

\* C2: normalize_text is idempotent: applied to what it returned, it returns
\* the same text, for texts with accents, upper case and punctuation too.
C2_NormalizeIdempotent ==
    Len(output) = 2 => output[2] = output[1]

(***************************************************************************)
(* Properties of calculate_similarity (SpecSimilarity)                     *)
(***************************************************************************)

\* the words of a text once normalized
Tokens(text) == Range(Split(normalize_text(text)))

\* the query has a critical word and the example has critical words but not
\* that one
CrossCategory ==
    \E c \in CriticalWords :
        /\ c \in Tokens(input.query)
        /\ Tokens(input.example) \cap CriticalWords # {}
        /\ c \notin Tokens(input.example)

\* C4: when the query has a critical word c and the example has some critical
\* word but not c, calculate_similarity of the variants of the query and the
\* example is 0, whatever the synonym table.
C4_CrossCategoryScoresZero ==
    (output # <<>> /\ CrossCategory) => output[1] = Zero

\* a cross-category pair has been scored with a synonym table that gave the
\* query a variant with a critical word the query does not have
C4_CrossingVariantScored ==
    /\ output # <<>>
    /\ CrossCategory
    /\ \E i \in 1..Len(expand_with_synonyms(synonyms, stop_words, input.query)) :
          (Tokens(expand_with_synonyms(synonyms, stop_words, input.query)[i])
              \cap CriticalWords) \ Tokens(input.query) # {}

(***************************************************************************)
(* Properties of repeated questions (SpecRepeat)                           *)
(***************************************************************************)

\* C6: a call with the question of an earlier call, whatever calls were made in
\* between, returns the result the earlier call returned.
C6_SameQuestionSameResult ==
    \A w \in Workers :
        ( /\ call[w].pc = "done"
          /\ remembered.set
          /\ call[w].question = remembered.question )
        => call[w].result = remembered.result

\* the question of an earlier call, which used a synonym, has been answered
\* again
C6_QuestionAnsweredAgain ==
    \E w \in Workers :
        /\ call[w].pc = "done"
        /\ remembered.set
        /\ call[w].question = remembered.question
        /\ Len(call[w].expanded_queries) >= 2
        /\ ~call[w].result.raised

(***************************************************************************)
(* Properties of concurrent requests (SpecConcurrent)                      *)
(***************************************************************************)

\* the results of the call of w when nothing else runs, on the tables as loaded
AloneResults(w) ==
    process_question(load_all_knowledge(files), load_synonyms(synonyms_file),
                     MatcherStopWords, CategoryKeywordsInit, use_spacy,
                     call[w].question)

\* C7: once the ChatBot is loaded no step of a request writes the knowledge, the
\* synonyms, the stop words or the category keywords, and every call, however
\* interleaved with another, ends with a result it has when run alone.
C7_NoSharedWritesAndAloneResult ==
    /\ [][phase = "ready" => UNCHANGED shared]_vars
    /\ [](\A w \in Workers : call[w].pc = "done" => call[w].result \in AloneResults(w))

\* a call has ended while the other worker's call was in progress
C7_EndedDuringOtherCall ==
    \E w, v \in Workers :
        /\ w # v
        /\ call[w].pc = "done"
        /\ call[v].pc \in {"search", "general", "floor"}
        /\ call[v].question # call[w].question

(***************************************************************************)
(* Properties of the synonym sources (SpecSynonyms)                        *)
(***************************************************************************)

\* the manager that SynonymManager() has constructed
Manager == output[1].manager

\* a manager has been constructed from a file json.load accepts
Loaded == output # <<>> /\ ~output[1].manager.raised

\* the variants of a text that substitute no synonym: the normalized text and
\* the normalized text without its stop words
Unsubstituted(text) ==
    LET Important(word) == word \notin stop_words \/ word \in CriticalWords
    IN { normalize_text(text), Join(Filter(Important, Split(normalize_text(text)))) }

\* C11: when no synonym source is available, SynonymManager.get_synonyms(w) is
\* the singleton of the normalized w for every word w, and
\* QueryMatcher.expand_with_synonyms gives no variant with a synonym substituted.
C11_NoSourceEveryWordItsOwnGroup ==
    Len(output) = 2 =>
        /\ (output[2].op = "get_synonyms" /\ input.kind = "missing")
              => output[2].synonyms = { _normalize_word(output[2].word) }
        /\ (output[2].op = "expand_with_synonyms" /\ synonyms_file.kind \in BrokenKinds)
              => Range(output[2].variants) \subseteq Unsubstituted(output[2].query)

\* C12: after SynonymManager has loaded a file, every word of a group is mapped
\* to that group, and being a synonym of is symmetric.
C12_WordInOneGroup ==
    Loaded =>
        /\ \A g \in DOMAIN Manager.synonym_groups : \A w \in Manager.synonym_groups[g] :
              w \in DOMAIN Manager.word_to_group /\ Manager.word_to_group[w] = g
        /\ \A w1, w2 \in DOMAIN Manager.word_to_group :
              w2 \in get_synonyms(Manager, w1) <=> w1 \in get_synonyms(Manager, w2)

\* exclusive_words lists one of the two words as excluded by the other
MutuallyExclusive(a, b) ==
    \/ a \in DOMAIN exclusive_words /\ b \in Range(exclusive_words[a])
    \/ b \in DOMAIN exclusive_words /\ a \in Range(exclusive_words[b])

\* C13: after QueryMatcher.load_synonyms the synonym table gives no word a
\* synonym that exclusive_words lists as mutually exclusive with it.
C13_NoExclusivePairing ==
    phase = "ready" =>
        \A word \in DOMAIN synonyms : \A i \in 1..Len(synonyms[word]) :
            ~MutuallyExclusive(word, synonyms[word][i])

(***************************************************************************)
(* More properties of one request at a time (Spec)                         *)
(***************************************************************************)

\* the calls whose question has been expanded
Expanded == {w \in Workers : call[w].pc \in {"search", "general", "floor"}}

\* the sequence has no element twice
NoDuplicates(s) == \A i, j \in 1..Len(s) : s[i] = s[j] => i = j

\* C14: the list of variants process_question uses, in basic and in spaCy mode,
\* has no duplicates and its first element is the normalized question.
C14_VariantsStartWithNormalizedText ==
    \A w \in Expanded :
        /\ NoDuplicates(call[w].expanded_queries)
        /\ call[w].expanded_queries # <<>>
        /\ call[w].expanded_queries[1] = call[w].question_for_processing

(***************************************************************************)
(* Properties of the internal scores (SpecScores)                          *)
(***************************************************************************)

\* C15: calculate_similarity returns a value from 0 to 1 for any lists of
\* variants and of example questions, 0 when either list is empty, and the
\* confidence categorize_question returns is from 0 to 1.
C15_ScoresInUnitInterval ==
    output # <<>> =>
        /\ input.op = "calculate_similarity" =>
              /\ RLeq(Zero, output[1]) /\ RLeq(output[1], One)
              /\ (input.queries = <<>> \/ input.target_phrases = <<>>) => output[1] = Zero
        /\ input.op = "categorize_question" =>
              RLeq(Zero, output[1][2]) /\ RLeq(output[1][2], One)

\* a list of variants and a list of example questions with a pair whose
\* combined score is above 1 have been scored
C15_ScoreAboveOneClamped ==
    /\ output # <<>>
    /\ input.op = "calculate_similarity"
    /\ \E i \in 1..Len(input.queries), j \in 1..Len(input.target_phrases) :
          LET pair == PairScore(stop_words, input.queries[i], input.target_phrases[j])
          IN pair[1] /\ RLess(One, pair[2])
    /\ output[1] = One

\* the question categorized, as categorize_question normalizes it
QuestionNormalized == normalize_text(input.question)

\* C16: when the normalized question has exclusive keywords of several
\* categories, categorize_question returns, with confidence 1, the first of those
\* categories in the order books, computers, cubicles, general, whatever the
\* weighted scores of the categories are.
C16_FirstOfSeveralExclusiveCategories ==
    (output # <<>> /\ input.op = "categorize_question") =>
        \A matches \in { ExclusiveMatches(category_keywords, QuestionNormalized) } :
            Cardinality(matches) >= 2 =>
                output[1] = << CategoryOrder[CHOOSE i \in matches : \A j \in matches : i <= j],
                               One >>

\* a question with exclusive keywords of two categories, of which the weighted
\* scores favour the later one, has been categorized as the earlier one
C16_LowerScoredCategoryReturned ==
    /\ output # <<>>
    /\ input.op = "categorize_question"
    /\ Cardinality(ExclusiveMatches(category_keywords, QuestionNormalized)) >= 2
    /\ output[1][1] = "books"
    /\ RLess(TraditionalScore(category_keywords, "books", QuestionNormalized),
             TraditionalScore(category_keywords, "general", QuestionNormalized))

\* C17: a question that is not blank but whose normalized form is empty, such
\* as '???', gets the response of a blank question: the clarification answer,
\* confidence 0, source general.
C17_EmptyNormalizedQuestionClarified ==
    \A w \in Workers :
        ( /\ call[w].pc = "done"
          /\ ~BlankQuestion(call[w].question)
          /\ normalize_text(call[w].question) = <<>> )
        => call[w].result = ClarificationResult(use_spacy)

\* the calls that have searched and not raised, before the fallback
Searched == {w \in Workers : call[w].pc = "floor"}

\* the best rule of a category for the variants of the call of w
BestIn(category, w) ==
    search_in_category(knowledge, stop_words, use_spacy, category, call[w].expanded_queries)

\* C18: the source is the category categorize_question chose or general; it is
\* general instead of the chosen category only when the best score in the
\* chosen category is below that category's threshold and the best general
\* score exceeds it by more than 0.1, and otherwise the answer and the source
\* are those of the chosen category.
C18_SwitchToGeneralOnlyByMargin ==
    /\ \A w \in Returned : call[w].category # "" =>
          call[w].result.source \in {call[w].category, "general"}
    /\ \A w \in Searched :
          \A main \in { BestIn(call[w].category, w) }, general \in { BestIn("general", w) } :
              /\ call[w].best_source \in {call[w].category, "general"}
              /\ call[w].best_source # call[w].category =>
                    /\ RLess(main.confidence, category_thresholds[call[w].category])
                    /\ RLess(RAdd(main.confidence, Rat(1, 10)), general.confidence)
              /\ ~( /\ RLess(main.confidence, category_thresholds[call[w].category])
                    /\ RLess(RAdd(main.confidence, Rat(1, 10)), general.confidence) ) =>
                    /\ call[w].best_source = call[w].category
                    /\ call[w].best_answer = main.answer
                    /\ call[w].best_confidence = main.confidence

\* a call has switched from the chosen category to general
C18_SwitchedToGeneral ==
    \E w \in Searched :
        /\ call[w].category # "general"
        /\ call[w].best_source = "general"
        /\ call[w].best_answer \in RuleAnswers("general")

\* the credit the traditional method gives the keyword in the question
\* categorized: "none" when the keyword, normalized, is not in it
CreditOf(keyword) == KeywordMatch(normalize_text(keyword), QuestionNormalized)

\* C19: in the weighted scoring of categorize_question a keyword found in the
\* normalized text counts 1.5 times the weight when it is a whole word at the
\* start of the text, once the weight when it is a whole word elsewhere, and 0.7
\* times the weight only when it is a substring that is no whole word of the
\* text; a text that is exactly the keyword is a whole word at the start.
C19_PartialCreditOnlyForSubstrings ==
    ( /\ output # <<>>
      /\ input.op = "categorize_question"
      /\ ExclusiveMatches(category_keywords, QuestionNormalized) = {}
      /\ ~LemmaCategory(category_keywords, extract_lemmas_spacy(use_spacy, input.question))[1] ) =>
        \A words \in { Split(QuestionNormalized) } :
          \A category \in Categories :
            \A i \in 1..Len(category_keywords[category].palabras) :
              \A keyword \in { normalize_text(category_keywords[category].palabras[i]) },
                 credit \in { CreditOf(category_keywords[category].palabras[i]) } :
                  credit # "none" =>
                      IF words # <<>> /\ words[1] = keyword THEN credit = "start"
                      ELSE IF keyword \in Range(words) THEN credit \in {"inside", "end"}
                      ELSE credit = "substring"

\* C20: for every scored pair of a variant and an example question, every one
\* of the action verbs reservar, prestar, usar, devolver that is a token of both
\* is counted for the bonus of 0.05.
C20_EveryCommonActionVerbCounted ==
    (output # <<>> /\ input.op = "calculate_similarity") =>
        \A i \in 1..Len(input.queries), j \in 1..Len(input.target_phrases) :
            PairScore(stop_words, input.queries[i], input.target_phrases[j])[1] =>
                CommonActions(stop_words, Tokens(input.queries[i]), Tokens(input.target_phrases[j]))
                    = (Tokens(input.queries[i]) \cap Tokens(input.target_phrases[j])) \cap ActionVerbs

(***************************************************************************)
(* More properties of the synonym sources (SpecSynonyms)                   *)
(***************************************************************************)

\* the records of the calls of expand_with_synonyms made so far
Expansions == { output[k] : k \in { n \in 1..Len(output) : output[n].op = "expand_with_synonyms" } }

\* the words of the normalized text of a query
WordsOf(query) == Split(normalize_text(query))

\* C21: for every word of the normalized text that is no category-defining
\* keyword and has an entry with at least one synonym in the table, the
\* variants of expand_with_synonyms contain the text with that one word
\* replaced by the first synonym of its entry.
C21_EveryWordWithSynonymsSubstituted ==
    \A e \in Expansions : \A words \in { WordsOf(e.query) } :
        \A i \in 1..Len(words) :
            ( /\ words[i] \notin CriticalWords
              /\ words[i] \in DOMAIN synonyms
              /\ Len(synonyms[words[i]]) > 0 )
            => \E k \in 1..Len(e.variants) :
                  e.variants[k] = Join([words EXCEPT ![i] = synonyms[words[i]][1]])

\* C22: every variant returned by expand_with_synonyms has among its words
\* every category-defining keyword that is a word of the normalized text.
C22_VariantsKeepCategoryKeywords ==
    \A e \in Expansions : \A words \in { Range(WordsOf(e.query)) } :
        \A k \in 1..Len(e.variants) :
            words \cap CriticalWords \subseteq Range(Split(e.variants[k]))

\* a text with a category-defining keyword that has an entry in the synonym
\* table was expanded, and a variant without the stop words was returned
C22_KeywordWithSynonymsExpanded ==
    \E e \in Expansions :
        /\ Len(e.variants) >= 2
        /\ \E word \in Range(WordsOf(e.query)) \cap CriticalWords :
              word \in DOMAIN synonyms /\ Len(synonyms[word]) > 0
        /\ \E word \in Range(WordsOf(e.query)) : word \in stop_words

(***************************************************************************)
(* More properties of calculate_similarity (SpecSimilarity)                *)
(***************************************************************************)

\* the variants of the query that calculate_similarity scores against the
\* example, without the empty ones it passes over
ScoredQueries ==
    { q \in Range(expand_with_synonyms(synonyms, stop_words, input.query)) : q # <<>> }

\* the critical words of a text
CriticalOf(text) == Tokens(text) \cap CriticalWords

\* the pair of the variant and the example is not skipped by the guard on
\* critical words of different categories
Unskipped(query) == ~CrossCategoryPair(CriticalOf(query), CriticalOf(input.example))

\* C23: for every pair of a variant and the example that the cross-category
\* guard does not skip, the penalty of 0.3 is subtracted exactly when the
\* variant has a critical word that is no word of the example, which for these
\* pairs is exactly when the variant has a critical word and the example none.
C23_PenaltyIffCriticalWordAbsent ==
    output # <<>> =>
        \A query \in ScoredQueries :
            Unskipped(query) =>
                \A penalty \in { KeywordPenalty(CriticalOf(query), Tokens(input.example)) } :
                    /\ penalty <=> \E word \in CriticalOf(query) : word \notin Tokens(input.example)
                    /\ penalty <=> (CriticalOf(query) # {} /\ CriticalOf(input.example) = {})

\* a variant with a critical word has been scored with the penalty against an
\* example without critical words, and the score is above the floor of 0
C23_PenalizedPairScored ==
    /\ output # <<>>
    /\ output[1] # Zero
    /\ \E query \in ScoredQueries :
          /\ Unskipped(query)
          /\ KeywordPenalty(CriticalOf(query), Tokens(input.example))

(***************************************************************************)
(* More properties of the internal scores (SpecScores)                     *)
(***************************************************************************)

\* categorize_question decides by the weighted scores of the traditional method:
\* no exclusive keyword is in the question and the lemmas decide nothing
ByWeightedScores ==
    /\ output # <<>>
    /\ input.op = "categorize_question"
    /\ ExclusiveMatches(category_keywords, QuestionNormalized) = {}
    /\ ~LemmaCategory(category_keywords, extract_lemmas_spacy(use_spacy, input.question))[1]

\* multi-word phrases of two categories, as a table of phrases per category would
\* hold them; category_keywords has the keys palabras, peso and exclusivas only
CategoryPhrases ==
    [ books |-> { <<"p","r","e","s","t","a","m","o"," ","a"," ","d","o","m","i","c","i","l","i","o">> },
      cubicles |-> { <<"s","a","l","a"," ","d","e"," ","e","s","t","u","d","i","o">> } ]

\* the keywords of a category found in the normalized question
KeywordsFound(category) ==
    { i \in 1..Len(category_keywords[category].palabras) :
          CreditOf(category_keywords[category].palabras[i]) # "none" }

\* C24: when a multi-word phrase of a category occurs verbatim in the normalized
\* text, the score of the category exceeds every single keyword contribution
\* (at most 1.5 times a weight of 1.0), and the category is returned when
\* another category has a single keyword in the text.
C24_PhraseOutweighsSingleKeyword ==
    ByWeightedScores =>
        \A category \in DOMAIN CategoryPhrases : \A phrase \in CategoryPhrases[category] :
            Contains(QuestionNormalized, phrase) =>
                /\ RLess(Rat(15, 10),
                         TraditionalScore(category_keywords, category, QuestionNormalized))
                /\ (\A other \in Categories \ {category} : Cardinality(KeywordsFound(other)) <= 1)
                      => output[1][1] = category

(***************************************************************************)
(* Properties of the final confidence and the answer (Spec)                *)
(***************************************************************************)

\* the calls that went through process_question to its end: not the blank
\* question, no exception
Completed == { w \in Returned : call[w].category # "" /\ ~call[w].result.raised }

\* best_confidence at line 448: 0.25 when the fallback replaced the best match
BestConfidenceAtEnd(w) == IF call[w].fallback THEN Rat(1, 4) ELSE call[w].best_confidence

\* C25: the confidence returned is best_confidence x (0.5 + 0.5 x
\* category_confidence), at most 1, rounded to 3 decimals; before the rounding it
\* is never above best_confidence and equals it only when the category
\* confidence is 1.
C25_FinalConfidenceDampened ==
    \A w \in Completed :
        \A best \in { BestConfidenceAtEnd(w) }, confidence \in { call[w].category_confidence } :
            \A final \in { RMin(RMul(best, RAdd(Rat(1, 2), RMul(Rat(1, 2), confidence))), One) } :
                /\ call[w].result.confidence = Round3(final)
                /\ RLeq(Zero, final)
                /\ RLeq(final, best)
                /\ final = best => confidence = One

\* a call has returned the answer of a rule with a confidence below its best
\* match, the category confidence being below 1
C25_RuleAnswerDampened ==
    \E w \in Completed :
        /\ ~call[w].fallback
        /\ RLess(call[w].category_confidence, One)
        /\ RLess(call[w].result.confidence, call[w].best_confidence)

\* C26: the answer process_question returns is never None: search_in_category
\* gives no answer only with the confidence 0, so after the search and the
\* switch to general an absent best answer has the confidence 0, and the
\* fallback replaces it.
C26_AnswerNeverNone ==
    /\ \A w \in Searched : \A category \in {call[w].category, "general"} :
          \A found \in { BestIn(category, w) } :
              ~found.raised => (found.answer = "None" <=> found.confidence = Zero)
    /\ \A w \in Searched :
          /\ call[w].best_answer = "None" => call[w].best_confidence = Zero
          /\ (call[w].best_source = "general" /\ call[w].category # "general")
                => call[w].best_answer # "None"
    /\ \A w \in Returned :
          /\ call[w].result.answer # "None"
          /\ call[w].fallback => call[w].result.answer \in FallbackStrings

\* a call whose searches found no answer at all has returned a fallback string
C26_NothingFoundAnswered ==
    \E w \in Completed :
        /\ call[w].best_answer = "None"
        /\ call[w].fallback
        /\ call[w].result.answer \in FallbackStrings

(***************************************************************************)
(* Properties of get_fallback_response (SpecScores)                        *)
(***************************************************************************)

\* the question of the call with str.lower() applied and nothing else
QuestionLower == MapSeq(LowerChar, input.question)

\* one of the words is a substring of the lower-cased question
Sniffed(words) == \E word \in words : Contains(QuestionLower, word)

\* C27: get_fallback_response returns one of seven fixed strings: the book-loan
\* string when the lower-cased question, not normalized, contains libro or
\* texto; else the cubicle string when it contains cubiculo, sala or cabina; else
\* the computer string when it contains computadora or ordenador; otherwise the
\* generic string of the category given, that of general for a category that
\* has none; the three first whatever the category.
C27_FallbackBySniffedWord ==
    (output # <<>> /\ input.op = "get_fallback_response") =>
        /\ Cardinality(FallbackStrings) = 7
        /\ output[1] \in FallbackStrings
        /\ output[1] =
             IF Sniffed({w_libro, w_texto}) THEN FallbackBookLoan
             ELSE IF Sniffed({w_cubiculo, w_sala, w_cabina}) THEN FallbackCubicleReserve
             ELSE IF Sniffed({w_computadora, w_ordenador}) THEN FallbackComputerUse
             ELSE IF input.category \in Categories THEN fallback_responses[input.category]
             ELSE fallback_responses["general"]

\* a question with cubículo, which is cubiculo once normalized, and none of the
\* words sniffed has got the generic string of a category that is not general
C27_AccentedWordNotSniffed ==
    /\ output # <<>>
    /\ input.op = "get_fallback_response"
    /\ Contains(normalize_text(input.question), w_cubiculo)
    /\ ~Sniffed({w_libro, w_texto, w_cubiculo, w_sala, w_cabina, w_computadora, w_ordenador})
    /\ input.category \in Categories \ {"general"}
    /\ output[1] = fallback_responses[input.category]

(***************************************************************************)
(* Properties of the category confidence (SpecScores)                      *)
(***************************************************************************)

\* the greatest of the weighted scores of the categories for the question
WinningScore ==
    RMaxOf({ TraditionalScore(category_keywords, category, QuestionNormalized) :
                category \in Categories })

\* C28: in basic mode, without an exclusive keyword in the question, a winning
\* score s of at least 0.5 gives the confidence min(s / 11.1, 1) and the
\* category that has this score, so a winning score from 0.5 up to 5.55 gives a
\* confidence below the 0.5 that a winning score below 0.5 gives, with general.
C28_WeightedConfidenceOverMaxPossible ==
    (ByWeightedScores /\ ~use_spacy) =>
        \A s \in { WinningScore } :
            IF RLess(s, Rat(1, 2)) THEN output[1] = <<"general", Rat(1, 2)>>
            ELSE /\ output[1][2] = RMin(RDiv(s, Rat(111, 10)), One)
                 /\ TraditionalScore(category_keywords, output[1][1], QuestionNormalized) = s
                 /\ RLess(s, Rat(555, 100)) => RLess(output[1][2], Rat(1, 2))

\* in basic mode a question with keywords has got a confidence below 0.5, and
\* its winning score is at least 0.5
C28_KeywordsGiveLowConfidence ==
    /\ ByWeightedScores
    /\ ~use_spacy
    /\ RLeq(Rat(1, 2), WinningScore)
    /\ RLess(output[1][2], Rat(1, 2))

====
